---- MODULE Spec2Model ----
(***************************************************************************)
(* go-watchdog: the probe-to-incident pipeline.                            *)
(*                                                                         *)
(* A monitoring loop (startMonitoring) runs rounds (runChecks).  A round    *)
(* launches one probe goroutine per configured site, collects the results  *)
(* over an unbuffered channel and, for every result, runs the transition   *)
(* detector (SiteStatusTracker.CheckAndNotify), records the check, and      *)
(* opens or closes a downtime incident in the database.  The web server    *)
(* runs beside the loop: its handlers add and delete sites of the shared   *)
(* configuration and start a further monitoring loop when the settings     *)
(* change.                                                                 *)
(*                                                                         *)
(* Every database call is one atomic step (the database serialises single  *)
(* calls and nothing more); the steps of different goroutines interleave.  *)
(* Time is counted in clock ticks; TicksPerSecond ticks make one second.   *)
(***************************************************************************)
EXTENDS Integers, Sequences, FiniteSets, TLC

\* ------------------------------------------------------------------ bounds
MaxSteps == 4         \* length of a run: probes launched, database calls
                      \* that fail, requests handled and process restarts,
                      \* taken together
MaxTime == 2          \* last clock reading
TicksPerSecond == 2   \* resolution of the clock
SlotsPerMinute == 2   \* resolution of the maintenance clock

\* ------------------------------------------------------------ the universe
SiteNames == {"s1", "s2"}

\* config.json: the site lists the program is started with
Configs == {<<>>, <<"s1">>, <<"s1", "s2">>}

\* end_time IS NULL
NULL == -1

\* the database calls of the loop body of runChecks, each of which can fail
DbCalls == {"Site.GetByName", "Uptime.Create", "Incident.GetOngoing",
            "Incident.Write", "AuditLog.Create"}

VARIABLES
    cfgSites,        \* cfg.Sites, shared by the loops and the handlers
    siteTable,       \* table sites: the names that have a row
    previousState,   \* SiteStatusTracker.previousState: site name -> isUp
    events,          \* calls of sendNotifications made by this process, each
                     \* with the position of its result in the site's results
    hist,            \* per site: the results this process has processed, in
                     \* the order of the CheckAndNotify calls, each with the
                     \* calls that failed and the incidents it started and
                     \* closed
    incidents,       \* table downtime_incidents, indexed by id
    uptimeRecords,   \* table uptime_records (columns site_id and is_up)
    auditLogs,       \* table audit_logs
    now,             \* the latest reading of time.Now()
    loops,           \* the goroutines that execute startMonitoring
    currentTicker,   \* the ticker in currentTicker, 0 for nil; the tickers
                     \* made before it are stopped
    buffered,        \* the stopped tickers with a tick left in the channel
    storeResults,    \* monitor.Store.Results
    leaked,          \* probe goroutines whose round returned without them
    steps,           \* probes, failed calls, requests and restarts so far
    restarts         \* process restarts so far

\* The maintenance service (internal/database/maintenance.go) and the
\* analytics service it drives (internal/database/analytics.go) have
\* specifications of their own, MaintenanceSpec and AnalyticsSpec below.
VARIABLES
    zone,            \* offset of time.Local from UTC, in hours
    started,         \* the instant of MaintenanceService.Start
    wall,            \* the latest reading of time.Now() by the service
    nextTick,        \* the instant of the next tick of m.ticker
    launched,        \* the task runs started so far
    running,         \* per task: the runs executing now
    msteps           \* ticks and admin requests so far

VARIABLES
    tables,          \* the tables the analytics service reads and writes
    jobs,            \* the runs of aggregation and cleanup, in the order
                     \* they were started, with what they did
    retentionDays,   \* m.cleanupRetentionDays
    asteps           \* runs started and calls failed so far

VARIABLES
    checked          \* the calls of CheckSite that have returned: what the
                     \* HTTP client gave and the Result made of it

\* The reconciliation of the configuration with table sites
\* (internal/sync/sync.go) has the specification SyncSpec below.
VARIABLES
    configSites,     \* s.cfg.Sites as the sync service reads it: name and URL
    dbSites,         \* table sites with its columns id, name and url
    syncResult,      \* what the latest call of SyncConfigToDB returned
    syncAudit,       \* the rows logAudit has written
    calls            \* requests handled so far

\* Start, Stop and the loop of the maintenance service, without the clock
\* and the tasks, have the specification LifecycleSpec below.
VARIABLES
    ticker,          \* m.ticker: 0 for nil, else the number of the ticker
    mutex,           \* m.mutex: "free", or "Stop" while a call of Stop
                     \* holds it and waits at m.done <- true
    maintLoops,      \* the goroutines that execute runMaintenanceLoop
    tickReady,       \* the tickers with a tick in their channel
    history,         \* the calls of Start and Stop so far and what they did
    panicked,        \* the process has died of a nil pointer dereference
    ops              \* calls, ticks and task checks so far

\* The transition detector under callers that overlap has the
\* specification DetectorSpec below.
VARIABLES
    trackerState,    \* st.previousState of the tracker the callers share
    callers,         \* the goroutines that call CheckAndNotify: what each
                     \* is about to send, if anything
    emitted,         \* the calls of sendNotifications, in their order
    fed              \* calls of CheckAndNotify so far

\* database.Open (internal/database/db.go) has the specification OpenSpec
\* below.
VARIABLES
    instance,        \* the package variable instance: the path of the
                     \* database it is connected to, "" for nil
    once,            \* the sync.Once of Open has run its function
    opens            \* the calls of Open so far: the path asked for, what
                     \* went wrong in it and what it returned

\* The dashboard notification store (NotificationStore).
VARIABLES
    Notifications,   \* ns.Notifications of the package variable
                     \* Notifications, the first element first
    addLog           \* the notifications handed to Add since the store was
                     \* last empty by construction or Clear, in their order

monitorVars == <<cfgSites, siteTable, previousState, events, hist, incidents,
                 uptimeRecords, auditLogs, now, loops, currentTicker,
                 buffered, storeResults, leaked, steps, restarts>>

maintVars == <<zone, started, wall, nextTick, launched, running, msteps>>

dataVars == <<tables, jobs, retentionDays, asteps>>

probeVars == <<checked>>

syncVars == <<configSites, dbSites, syncResult, syncAudit>>

lifeVars == <<ticker, mutex, maintLoops, tickReady, history, panicked, ops>>

detVars == <<trackerState, callers, emitted, fed>>

openVars == <<instance, once, opens>>

storeVars == <<Notifications, addLog>>

extraVars == <<syncVars, calls, lifeVars, detVars, openVars, storeVars>>

\* what the actions of a specification leave alone: the variables of the
\* other specifications
syncOthers == <<monitorVars, maintVars, dataVars, probeVars, lifeVars, detVars,
                openVars, storeVars>>
lifeOthers == <<monitorVars, maintVars, dataVars, probeVars, syncVars, calls,
                detVars, openVars, storeVars>>
detOthers == <<monitorVars, maintVars, dataVars, probeVars, syncVars, calls,
               lifeVars, openVars, storeVars>>
openOthers == <<monitorVars, maintVars, dataVars, probeVars, syncVars, calls,
                lifeVars, detVars, storeVars>>
storeOthers == <<monitorVars, maintVars, dataVars, probeVars, syncVars, calls,
                 lifeVars, detVars, openVars>>

serviceVars == <<maintVars, dataVars, probeVars, extraVars>>

vars == <<monitorVars, serviceVars>>

dbVars == <<siteTable, incidents, uptimeRecords, auditLogs>>
trackerVars == <<previousState, events, hist>>
tickerVars == <<currentTicker, buffered>>

\* ------------------------------------------------------- transition detector

EmptyMap == [x \in {} |-> FALSE]

\* the map write previousState[name] = isUp
MapPut(m, name, isUp) ==
    [x \in (DOMAIN m) \cup {name} |-> IF x = name THEN isUp ELSE m[x]]

\* CheckAndNotify without the test of `existed`
CheckAndNotifyNoBaseline(ps, name, isUp) ==
    LET previousStatus == IF name \in DOMAIN ps THEN ps[name] ELSE FALSE
    IN  [previousState |-> MapPut(ps, name, isUp),
         notify |-> IF previousStatus = isUp THEN "none"
                    ELSE IF ~isUp THEN "down"
                    ELSE "up"]

\* CheckAndNotify that records only the first state it sees of a site
CheckAndNotifyStale(ps, name, isUp) ==
    LET existed == name \in DOMAIN ps
        previousStatus == IF existed THEN ps[name] ELSE FALSE
    IN  [previousState |-> IF existed THEN ps ELSE MapPut(ps, name, isUp),
         notify |-> IF ~existed \/ previousStatus = isUp THEN "none"
                    ELSE IF ~isUp THEN "down"
                    ELSE "up"]

\* CheckAndNotify that compares with Up whatever state it has read
CheckAndNotifyRepeat(ps, name, isUp) ==
    LET existed == name \in DOMAIN ps
    IN  [previousState |-> MapPut(ps, name, isUp),
         notify |-> IF ~existed \/ isUp THEN "none" ELSE "down"]

\* SiteStatusTracker.CheckAndNotify: the new map and the notification sent
CheckAndNotify(ps, name, isUp) ==
    LET existed == name \in DOMAIN ps
        previousStatus == IF existed THEN ps[name] ELSE FALSE
    IN  [previousState |-> MapPut(ps, name, isUp),
         notify |-> IF ~existed \/ previousStatus = isUp THEN "none"
                    ELSE IF ~isUp THEN "down"
                    ELSE "up"]

\* ------------------------------------------------------------ incident ledger

\* int64(d.Seconds()): a duration in whole seconds, truncated toward zero
Seconds(d) ==
    IF d >= 0 THEN d \div TicksPerSecond ELSE -((-d) \div TicksPerSecond)

\* the rows WHERE site_id = ? AND end_time IS NULL
OpenIds(inc, site) ==
    {id \in 1..Len(inc) : inc[id].site_id = site /\ inc[id].end_time = NULL}

\* GetOngoing with WHERE end_time IS NOT NULL
GetOngoingClosed(inc, site) ==
    {id \in 1..Len(inc) : inc[id].site_id = site /\ inc[id].end_time # NULL}

\* GetOngoing without the condition on end_time
GetOngoingAny(inc, site) ==
    {id \in 1..Len(inc) :
        /\ inc[id].site_id = site
        /\ \A other \in 1..Len(inc) :
              inc[other].site_id = site
              => inc[other].start_time <= inc[id].start_time}

\* IncidentRepository.GetOngoing: ORDER BY start_time DESC LIMIT 1.  The set
\* of ids the query may return; empty when there is no row (nil, nil).
GetOngoing(inc, site) ==
    {id \in OpenIds(inc, site) :
        \A other \in OpenIds(inc, site) :
            inc[other].start_time <= inc[id].start_time}

\* IncidentRepository.Create of DowntimeIncident{SiteID, StartTime}
IncidentCreate(inc, site, t) ==
    Append(inc, [site_id |-> site, start_time |-> t, end_time |-> NULL,
                 duration_seconds |-> 0])

\* IncidentRepository.Update of the incident read by GetOngoing, EndTime set
IncidentUpdate(inc, id, endTime) ==
    [inc EXCEPT ![id] = [@ EXCEPT !.end_time = endTime,
                                   !.duration_seconds =
                                       Seconds(endTime - inc[id].start_time)]]

\* --------------------------------------------------------------- site table

\* the id of a site's row in table sites (name is UNIQUE, id AUTOINCREMENT)
SiteID(name) == IF name = "s1" THEN 1 ELSE 2

\* the names in a list of sites
Names(sites) == {sites[k] : k \in 1..Len(sites)}

\* ------------------------------------------------------------ configuration

\* Config.AddSite: append
AddSite(sites, name) == Append(sites, name)

\* Config.DeleteSite: remove the first site of that name
DeleteSite(sites, name) ==
    IF name \notin Names(sites) THEN sites
    ELSE LET idx == CHOOSE k \in 1..Len(sites) :
                        /\ sites[k] = name
                        /\ \A j \in 1..(k - 1) : sites[j] # name
         IN  SubSeq(sites, 1, idx - 1) \o SubSeq(sites, idx + 1, Len(sites))

Tasks == {"aggregation", "cleanup"}

\* who starts a run: checkAndRunTasks or the admin request
Origins == {"scheduler", "admin"}

\* The specification of the monitoring loops leaves the maintenance
\* service out: its variables keep these values.
MaintenanceIdle ==
    /\ zone = 0
    /\ started = 0
    /\ wall = 0
    /\ nextTick = 0
    /\ launched = {}
    /\ running = [t \in Tasks |-> [by \in Origins |-> 0]]
    /\ msteps = 0

\* the tables CleanupOldData deletes from, in its order
CleanupOrder == <<"uptime_records", "downtime_incidents", "uptime_summary",
                  "notification_logs", "audit_logs">>

Range(f) == {f[x] : x \in DOMAIN f}

\* The specifications that leave the analytics service out keep its
\* variables at these values.
\* no call of CheckSite is followed
ProbeIdle == checked = <<>>

\* the SyncResult before the first call of SyncConfigToDB
NoSyncResult ==
    [at |-> 0, added |-> 0, updated |-> 0, errors |-> {}, total |-> 0]

\* no request for a reconciliation is followed
SyncIdle ==
    /\ configSites = <<>>
    /\ dbSites = {}
    /\ syncResult = NoSyncResult
    /\ syncAudit = <<>>

\* NewMaintenanceService: no ticker, nobody at the channel done
LifecycleIdle ==
    /\ ticker = 0
    /\ mutex = "free"
    /\ maintLoops = <<>>
    /\ tickReady = {}
    /\ history = <<>>
    /\ panicked = FALSE
    /\ ops = 0

\* nobody calls the detector
DetectorIdle ==
    /\ trackerState = EmptyMap
    /\ callers = <<>>
    /\ emitted = <<>>
    /\ fed = 0

\* Open has not been called
OpenIdle ==
    /\ instance = ""
    /\ once = FALSE
    /\ opens = <<>>

\* the store as the package constructs it: no notifications
StoreIdle ==
    /\ Notifications = <<>>
    /\ addLog = <<>>

\* The specifications of the monitoring loops, of the maintenance service,
\* of the analytics service and of the probe leave the other parts out.
ExtraIdle ==
    /\ SyncIdle
    /\ calls = 0
    /\ LifecycleIdle
    /\ DetectorIdle
    /\ OpenIdle
    /\ StoreIdle

AnalyticsIdle ==
    /\ tables = [c \in Range(CleanupOrder) |-> {}]
    /\ jobs = <<>>
    /\ retentionDays = 0
    /\ asteps = 0

\* --------------------------------------------------------- monitoring loops

\* no result in hand
NoResult == [name |-> "", isUp |-> FALSE, h |-> 0, ongoing |-> 0]

\* a goroutine that is about to execute startMonitoring
NewLoop == [pc |-> "start", ticker |-> 0, probes |-> <<>>, i |-> 0,
            currentResults |-> <<>>, res |-> NoResult]

\* the ticker a loop ranges over: `for range currentTicker.C` reads the
\* variable once, when the first call of runChecks has returned
Bound(l) == IF loops[l].ticker = 0 THEN currentTicker ELSE loops[l].ticker

\* loop l is about to call runChecks: at the start of startMonitoring, or on
\* a tick (a running ticker keeps ticking, a stopped one has at most the
\* tick that is left in its channel)
Due(l) ==
    \/ loops[l].pc = "run"
    \/ /\ loops[l].pc = "wait"
       /\ loops[l].ticker = currentTicker \/ loops[l].ticker \in buffered

\* the tick loop l takes is gone from the channel
Taken(l) ==
    IF loops[l].pc = "wait" /\ loops[l].ticker # currentTicker
    THEN buffered \ {loops[l].ticker} ELSE buffered

\* ------------------------------------------------------------------- actions

Init ==
    /\ cfgSites \in Configs
    /\ siteTable = Names(cfgSites)
    /\ previousState = EmptyMap
    /\ events = <<>>
    /\ hist = [s \in SiteNames |-> <<>>]
    /\ incidents = <<>>
    /\ uptimeRecords = <<>>
    /\ auditLogs = <<>>
    /\ now = 0
    /\ loops = <<NewLoop>>
    /\ currentTicker = 0
    /\ buffered = {}
    /\ storeResults = <<>>
    /\ leaked = 0
    /\ steps = 0
    /\ restarts = 0
    /\ MaintenanceIdle
    /\ AnalyticsIdle
    /\ ProbeIdle
    /\ ExtraIdle

\* startMonitoring up to its first call of runChecks: stop the ticker in
\* currentTicker and put a new one there.  `pending` says whether the
\* stopped ticker has a tick left in its channel, which matters when a
\* loop ranges over that ticker.
StartMonitoring(l, pending) ==
    /\ loops[l].pc = "start"
    /\ pending => /\ currentTicker # 0
                  /\ \E m \in DOMAIN loops : loops[m].ticker = currentTicker
    /\ buffered' = IF pending THEN buffered \cup {currentTicker}
                   ELSE buffered
    /\ currentTicker' = currentTicker + 1
    /\ loops' = [loops EXCEPT ![l].pc = "run"]
    /\ UNCHANGED serviceVars
    /\ UNCHANGED <<cfgSites, dbVars, trackerVars, now, storeResults, leaked,
                   steps, restarts>>

\* runChecks with no site configured: returns at once
RunChecksEmpty(l) ==
    /\ Due(l)
    /\ steps < MaxSteps
    /\ Len(cfgSites) = 0
    /\ buffered' = Taken(l)
    /\ loops' = [loops EXCEPT ![l] = [@ EXCEPT !.pc = "wait",
                                                !.ticker = Bound(l)]]
    /\ steps' = steps + 1
    /\ UNCHANGED serviceVars
    /\ UNCHANGED <<cfgSites, dbVars, trackerVars, now, currentTicker,
                   storeResults, leaked, restarts>>

\* runChecks: make the channel and start one probe goroutine per site
RunChecksStart(l) ==
    /\ Due(l)
    /\ steps + Len(cfgSites) <= MaxSteps
    /\ Len(cfgSites) # 0
    /\ buffered' = Taken(l)
    /\ loops' = [loops EXCEPT ![l] =
                   [@ EXCEPT !.pc = "collect",
                             !.probes = [k \in 1..Len(cfgSites) |->
                                           [site |-> cfgSites[k],
                                            st |-> "running"]],
                             !.i = 0,
                             !.currentResults = <<>>]]
    /\ steps' = steps + Len(cfgSites)
    /\ UNCHANGED serviceVars
    /\ UNCHANGED <<cfgSites, dbVars, trackerVars, now, currentTicker,
                   storeResults, leaked, restarts>>

AfterLookupReturn(found) == IF found THEN "ledger" ELSE "wait"

\* runChecks: where the collector goes after Site.GetByName: on to the
\* uptime record and the ledger, or, when the lookup failed, to printResult
\* and the next iteration of the loop
AfterLookup(found) == IF found THEN "ledger" ELSE "collect"

\* the collector loop after CheckAndNotify: look the site up, put its id
\* into the result and record the check.  h is the place of the result
\* in the results of the site, hs and base are hist and the loop as the
\* detector left them.  F: the calls that fail.
LookUpAndRecord(l, name, isUp, h, hs, base, F) ==
    LET found == name \in siteTable /\ "Site.GetByName" \notin F
        failed == IF found THEN F \cap {"Uptime.Create"}
                  ELSE {"Site.GetByName"}
    IN  /\ F = IF name \in siteTable THEN failed ELSE {}
        /\ hist' = [hs EXCEPT ![name][h] =
                       [@ EXCEPT !.failed = failed, !.done = ~found]]
        /\ uptimeRecords' =
              IF found /\ "Uptime.Create" \notin F
              THEN Append(uptimeRecords,
                          [site_id |-> SiteID(name), is_up |-> isUp])
              ELSE uptimeRecords
        /\ loops' = [loops EXCEPT ![l] =
              [base EXCEPT !.currentResults[Len(base.currentResults)].id =
                               IF found THEN SiteID(name) ELSE 0,
                           !.pc = AfterLookup(found),
                           !.i = IF found THEN @ ELSE @ + 1,
                           !.res = IF found
                                   THEN [name |-> name, isUp |-> isUp,
                                         h |-> h, ongoing |-> 0]
                                   ELSE NoResult]]
        /\ steps' = steps + Cardinality(F)

\* the collector loop, first part: probe k's CheckSite has returned IsUp =
\* isUp and the collector receives the result and runs the detector, which
\* reads and writes previousState under its mutex.  When the state has not
\* changed the collector goes on to look the site up and record the check;
\* when it has, the notification is sent next, the mutex released.
\* F: the calls that fail.
RunChecksReceive(l, k, isUp, F) ==
    /\ loops[l].pc = "collect"
    /\ loops[l].i < Len(cfgSites)
    /\ k \in DOMAIN loops[l].probes
    /\ loops[l].probes[k].st = "running"
    /\ LET name == loops[l].probes[k].site
           det == CheckAndNotify(previousState, name, isUp)
           h == Len(hist[name]) + 1
           hs == [hist EXCEPT ![name] =
                     Append(@, [isUp |-> isUp, failed |-> {},
                                opened |-> {}, closed |-> {},
                                done |-> FALSE])]
           base == [loops[l] EXCEPT
                      !.probes[k].st = "done",
                      !.currentResults =
                          Append(@, [name |-> name, isUp |-> isUp,
                                     id |-> 0])]
       IN  /\ previousState' = det.previousState
           /\ IF det.notify = "none"
              THEN LookUpAndRecord(l, name, isUp, h, hs, base, F)
              ELSE /\ F = {}
                   /\ hist' = hs
                   /\ loops' = [loops EXCEPT ![l] =
                         [base EXCEPT !.pc = "notify",
                                      !.res = [name |-> name, isUp |-> isUp,
                                               h |-> h, ongoing |-> 0]]]
                   /\ UNCHANGED <<uptimeRecords, steps>>
    /\ UNCHANGED serviceVars
    /\ UNCHANGED <<cfgSites, siteTable, incidents, auditLogs, now, events,
                   tickerVars, storeResults, leaked, restarts>>

\* the collector loop, CheckAndNotify after the mutex: sendNotifications
\* for the change of state, "down" or "up"; then the site is looked up and
\* the check recorded.  F: the calls that fail.
RunChecksNotify(l, F) ==
    /\ loops[l].pc = "notify"
    /\ LET r == loops[l].res
       IN  /\ events' = Append(events,
                              [site |-> r.name,
                               status |-> IF r.isUp THEN "up" ELSE "down",
                               seq |-> r.h])
           /\ LookUpAndRecord(l, r.name, r.isUp, r.h, hist, loops[l], F)
    /\ UNCHANGED serviceVars
    /\ UNCHANGED <<cfgSites, siteTable, incidents, auditLogs, now,
                   previousState, tickerVars, storeResults, leaked, restarts>>

\* the collector loop, second part: GetOngoing.  `ongoing` is the row it
\* returns (0 for nil).  Nothing is left to do when the call fails, when
\* the site is down and has an ongoing incident, and when it is up and has
\* none.
RunChecksGetOngoing(l, fail, ongoing) ==
    /\ loops[l].pc = "ledger"
    /\ fail => steps < MaxSteps
    /\ LET r == loops[l].res
           write == ~fail /\ (r.isUp <=> ongoing # 0)
       IN  /\ hist' = IF write THEN hist
                      ELSE [hist EXCEPT ![r.name][r.h] =
                              [@ EXCEPT !.failed =
                                            IF fail
                                            THEN @ \cup {"Incident.GetOngoing"}
                                            ELSE @,
                                        !.done = TRUE]]
           /\ loops' = [loops EXCEPT ![l] =
                 IF write
                 THEN [@ EXCEPT !.pc = "write", !.res.ongoing = ongoing]
                 ELSE [@ EXCEPT !.pc = "collect", !.i = @ + 1,
                                !.res = NoResult]]
    /\ steps' = steps + (IF fail THEN 1 ELSE 0)
    /\ UNCHANGED serviceVars
    /\ UNCHANGED <<cfgSites, dbVars, previousState, events, now, tickerVars,
                   storeResults, leaked, restarts>>

\* the collector loop, third part: read the clock at t and create an
\* incident (site down) or close the one GetOngoing returned (site up),
\* then write the audit log.  F: the calls that fail.
RunChecksWrite(l, t, F) ==
    /\ loops[l].pc = "write"
    /\ F \in {{}, {"Incident.Write"}, {"AuditLog.Create"}}
    /\ LET r == loops[l].res
           ok == "Incident.Write" \notin F
       IN  /\ incidents' =
                 IF ~ok THEN incidents
                 ELSE IF r.isUp THEN IncidentUpdate(incidents, r.ongoing, t)
                 ELSE IncidentCreate(incidents, SiteID(r.name), t)
           /\ auditLogs' =
                 IF ok /\ "AuditLog.Create" \notin F
                 THEN Append(auditLogs,
                             IF r.isUp
                             THEN [action |-> "incident_closed",
                                   entity_id |-> r.ongoing]
                             ELSE [action |-> "incident_started",
                                   entity_id |-> Len(incidents) + 1])
                 ELSE auditLogs
           /\ hist' = [hist EXCEPT ![r.name][r.h] =
                 [@ EXCEPT !.failed = @ \cup F,
                           !.opened = IF ok /\ ~r.isUp
                                      THEN {Len(incidents) + 1} ELSE @,
                           !.closed = IF ok /\ r.isUp
                                      THEN {r.ongoing} ELSE @,
                           !.done = TRUE]]
    /\ loops' = [loops EXCEPT ![l] = [@ EXCEPT !.pc = "collect",
                                                !.i = @ + 1,
                                                !.res = NoResult]]
    /\ now' = t
    /\ steps' = steps + Cardinality(F)
    /\ UNCHANGED serviceVars
    /\ UNCHANGED <<cfgSites, siteTable, uptimeRecords, previousState, events,
                   tickerVars, storeResults, leaked, restarts>>

\* the collector loop is over: publish the results and return; the probe
\* goroutines whose result was not received stay blocked on the channel
RunChecksReturn(l) ==
    /\ loops[l].pc = "collect"
    /\ ~(loops[l].i < Len(cfgSites))
    /\ storeResults' = loops[l].currentResults
    /\ leaked' = leaked + Cardinality({k \in DOMAIN loops[l].probes :
                                          loops[l].probes[k].st # "done"})
    /\ loops' = [loops EXCEPT ![l] = [NewLoop EXCEPT !.pc = "wait",
                                                      !.ticker = Bound(l)]]
    /\ UNCHANGED serviceVars
    /\ UNCHANGED <<cfgSites, dbVars, trackerVars, now, tickerVars, steps,
                   restarts>>

\* POST /settings/add, for a site that is not configured
SettingsAdd(name) ==
    /\ steps < MaxSteps
    /\ name \notin Names(cfgSites)
    /\ cfgSites' = AddSite(cfgSites, name)
    /\ steps' = steps + 1
    /\ UNCHANGED serviceVars
    /\ UNCHANGED <<dbVars, trackerVars, now, loops, tickerVars, storeResults,
                   leaked, restarts>>

\* POST /manage/delete, for a site that is configured
ManageDelete(name) ==
    /\ steps < MaxSteps
    /\ name \in Names(cfgSites)
    /\ cfgSites' = DeleteSite(cfgSites, name)
    /\ steps' = steps + 1
    /\ UNCHANGED serviceVars
    /\ UNCHANGED <<dbVars, trackerVars, now, loops, tickerVars, storeResults,
                   leaked, restarts>>

\* POST /manage/settings: restartMonitoring starts a goroutine that
\* executes startMonitoring
ManageSettings ==
    /\ steps < MaxSteps
    /\ loops' = Append(loops, NewLoop)
    /\ steps' = steps + 1
    /\ UNCHANGED serviceVars
    /\ UNCHANGED <<cfgSites, dbVars, trackerVars, now, tickerVars,
                   storeResults, leaked, restarts>>

\* the process is stopped and started again: the memory is lost, the
\* database and config.json stay, main puts the configured sites that have
\* no row into table sites
ProcessRestart ==
    /\ steps < MaxSteps
    /\ steps' = steps + 1
    /\ restarts' = restarts + 1
    /\ siteTable' = siteTable \cup Names(cfgSites)
    /\ previousState' = EmptyMap
    /\ events' = <<>>
    /\ hist' = [s \in SiteNames |-> <<>>]
    /\ loops' = <<NewLoop>>
    /\ currentTicker' = 0
    /\ buffered' = {}
    /\ storeResults' = <<>>
    /\ leaked' = 0
    /\ UNCHANGED serviceVars
    /\ UNCHANGED <<cfgSites, incidents, uptimeRecords, auditLogs, now>>

\* the sets of calls that can fail in one step, within the budget: one
\* call, because a failed call ends the step or is the last call of it
Failures == {F \in {{}} \cup {{c} : c \in DbCalls} :
                steps + Cardinality(F) <= MaxSteps}

\* what GetOngoing can return to loop l: a row id, or 0 for nil
Ongoing(l) ==
    IF GetOngoing(incidents, SiteID(loops[l].res.name)) = {} THEN {0}
    ELSE GetOngoing(incidents, SiteID(loops[l].res.name))

Next ==
    \/ \E l \in DOMAIN loops, pending \in BOOLEAN : StartMonitoring(l, pending)
    \/ \E l \in DOMAIN loops : RunChecksEmpty(l)
    \/ \E l \in DOMAIN loops : RunChecksStart(l)
    \/ \E l \in DOMAIN loops :
          \E k \in DOMAIN loops[l].probes, isUp \in BOOLEAN, F \in Failures :
              RunChecksReceive(l, k, isUp, F)
    \/ \E l \in DOMAIN loops, F \in Failures : RunChecksNotify(l, F)
    \/ \E l \in DOMAIN loops, fail \in BOOLEAN :
          \E ongoing \in Ongoing(l) : RunChecksGetOngoing(l, fail, ongoing)
    \/ \E l \in DOMAIN loops, t \in now..MaxTime, F \in Failures :
          RunChecksWrite(l, t, F)
    \/ \E l \in DOMAIN loops : RunChecksReturn(l)
    \/ \E name \in SiteNames : SettingsAdd(name)
    \/ \E name \in SiteNames : ManageDelete(name)
    \/ ManageSettings
    \/ ProcessRestart

Spec == Init /\ [][Next]_vars

TypeOK ==
    /\ Names(cfgSites) \subseteq SiteNames
    /\ siteTable \subseteq SiteNames
    /\ now \in 0..MaxTime
    /\ steps \in 0..MaxSteps
    /\ \A l \in DOMAIN loops :
          loops[l].pc \in {"start", "run", "collect", "notify", "ledger",
                           "write", "wait"}
    /\ \A id \in 1..Len(incidents) :
          /\ incidents[id].end_time \in {NULL} \cup (0..MaxTime)
          /\ incidents[id].start_time \in 0..MaxTime

\* ---------------------------------------------------------------- properties

Last(h) == h[Len(h)]

\* the events sent for site s, in order
EventsOf(s) == SelectSeq(events, LAMBDA e : e.site = s)

\* the open incidents of a site, read off the table
OpenRows(s) ==
    {id \in 1..Len(incidents) :
        incidents[id].site_id = SiteID(s) /\ incidents[id].end_time = NULL}

\* C1: at every moment each site has at most one incident with end_time NULL,
\* whatever the results are and whichever database calls fail.
C1_AtMostOneOpenIncident ==
    \A s \in SiteNames : Cardinality(OpenRows(s)) <= 1

\* C2: the first result of a site that the process handles (no previous
\* state recorded) sends no event and creates no incident.
C2_FirstResultIsBaseline ==
    \A s \in SiteNames :
        hist[s] # <<>>
        => /\ hist[s][1].opened = {}
           /\ \A n \in 1..Len(events) :
                 events[n].site = s => events[n].seq # 1

\* the events the results h of site s call for: one per change of state
\* after the first result, with the place of the result that changed it
ExpectedEvents(s, h) ==
    {[site |-> s,
      status |-> IF h[n].isUp THEN "up" ELSE "down",
      seq |-> n] : n \in {m \in 2..Len(h) : h[m].isUp # h[m - 1].isUp}}

\* the events CheckAndNotify has decided on under its mutex and is about
\* to send
Pending ==
    {[site |-> loops[l].res.name,
      status |-> IF loops[l].res.isUp THEN "up" ELSE "down",
      seq |-> loops[l].res.h] :
        l \in {m \in DOMAIN loops : loops[m].pc = "notify"}}

\* the events sent, as a set
Sent == {events[n] : n \in DOMAIN events}

\* C3: the events of a site are exactly one "down" per Up->Down step and one
\* "up" per Down->Up step of its results, each sent once or about to be
\* sent, and nothing else.
C3_EventsAreTheTransitions ==
    /\ Cardinality(Sent) = Len(events)
    /\ Sent \cap Pending = {}
    /\ \A s \in SiteNames :
          {e \in Sent \cup Pending : e.site = s}
          = ExpectedEvents(s, hist[s])

\* a site has gone Up, Down, Down, Up with no failing call, and two events
\* have been sent for it
C3_Witness ==
    \E s \in SiteNames :
        /\ Len(hist[s]) = 4
        /\ hist[s][1].isUp /\ ~hist[s][2].isUp
        /\ ~hist[s][3].isUp /\ hist[s][4].isUp
        /\ \A n \in 1..4 : hist[s][n].done /\ hist[s][n].failed = {}
        /\ Len(EventsOf(s)) = 2

\* C4: when a site recorded as Up gets two down results in a row, the first
\* sends one "down" event and the second sends none.
C4_OneEventForTwoDowns ==
    \A s \in SiteNames : \A j \in 2..(Len(hist[s]) - 1) :
        (hist[s][j - 1].isUp /\ ~hist[s][j].isUp /\ ~hist[s][j + 1].isUp)
        => /\ Cardinality({n \in 1..Len(events) :
                              /\ events[n].site = s
                              /\ events[n].seq = j
                              /\ events[n].status = "down"})
              = (IF [site |-> s, status |-> "down", seq |-> j] \in Pending
                 THEN 0 ELSE 1)
           /\ \A e \in Sent \cup Pending :
                 e.site = s
                 => /\ e.seq # j + 1
                    /\ (e.seq = j => e.status = "down")

\* a site has gone Up, Down, Down with no failing call
C4_Witness ==
    \E s \in SiteNames : \E j \in 2..(Len(hist[s]) - 1) :
        /\ hist[s][j - 1].isUp /\ ~hist[s][j].isUp /\ ~hist[s][j + 1].isUp
        /\ \A n \in (j - 1)..(j + 1) :
              hist[s][n].done /\ hist[s][n].failed = {}

\* the incident started by result d and closed by result u of site s, with a
\* duration of end_time - start_time in whole seconds
OneIncident(s, a, d, u) ==
    /\ a.opened = {} /\ d.closed = {} /\ u.opened = {}
    /\ Cardinality(d.opened) = 1
    /\ u.closed = d.opened
    /\ \A id \in d.opened :
          /\ incidents[id].site_id = SiteID(s)
          /\ incidents[id].end_time # NULL
          /\ incidents[id].duration_seconds * TicksPerSecond
                <= incidents[id].end_time - incidents[id].start_time
          /\ incidents[id].end_time - incidents[id].start_time
                < (incidents[id].duration_seconds + 1) * TicksPerSecond

\* C5: whenever the results of a site go Up, Down, Up and the three have
\* been handled, the Down result has started one incident and the following
\* Up result has closed that incident, with duration = end_time - start_time
\* in whole seconds.
C5_UpDownUp ==
    \A s \in SiteNames : \A j \in 1..(Len(hist[s]) - 2) :
        (/\ hist[s][j].isUp /\ ~hist[s][j + 1].isUp /\ hist[s][j + 2].isUp
         /\ \A n \in j..(j + 2) : hist[s][n].done)
        => OneIncident(s, hist[s][j], hist[s][j + 1], hist[s][j + 2])

\* C6: a result starts an incident only when it is a down result that
\* follows an up result of the site; a down result that follows a down
\* result starts none.
C6_IncidentOnlyOnTransition ==
    \A s \in SiteNames : \A j \in 1..Len(hist[s]) :
        hist[s][j].opened # {}
        => /\ j >= 2
           /\ hist[s][j - 1].isUp
           /\ ~hist[s][j].isUp

\* C7: when the collector has a down result in hand and asks for the ongoing
\* incident of a site that has an open incident, the incident table stays
\* as it is and the collector goes on without a write.
C7_DownWithOpenIncident ==
    [][\A l \in DOMAIN loops :
          (/\ loops[l].pc = "ledger"
           /\ ~loops[l].res.isUp
           /\ OpenRows(loops[l].res.name) # {}
           /\ l \in DOMAIN loops'
           /\ loops'[l].pc # "ledger")
          => /\ incidents' = incidents
             /\ loops'[l].pc # "write"]_vars

\* after a restart the first result of a site is down and finds the incident
\* the previous process left open
C7_Witness ==
    \E s \in SiteNames :
        /\ restarts = 1
        /\ Len(hist[s]) = 1
        /\ ~hist[s][1].isUp
        /\ hist[s][1].done
        /\ hist[s][1].failed = {}
        /\ hist[s][1].opened = {}
        /\ OpenRows(s) # {}

\* C8: when the collector has an up result in hand and asks for the ongoing
\* incident of a site that has no open incident, the incident table stays
\* as it is and the collector goes on without a write.
C8_UpWithoutOpenIncident ==
    [][\A l \in DOMAIN loops :
          (/\ loops[l].pc = "ledger"
           /\ loops[l].res.isUp
           /\ OpenRows(loops[l].res.name) = {}
           /\ l \in DOMAIN loops'
           /\ loops'[l].pc # "ledger")
          => /\ incidents' = incidents
             /\ loops'[l].pc # "write"]_vars

\* a site whose incident is closed has had one more up result
C8_Witness ==
    \E s \in SiteNames :
        /\ Len(hist[s]) >= 3
        /\ Last(hist[s]).isUp
        /\ Last(hist[s]).done
        /\ Last(hist[s]).failed = {}
        /\ Last(hist[s]).closed = {}
        /\ hist[s][Len(hist[s]) - 1].closed # {}
        /\ OpenRows(s) = {}

\* C9: a row of the incident table changes only once, from open to closed:
\* a row with end_time set stays as it is, and no row is removed.
C9_ClosedIncidentIsImmutable ==
    [][\A id \in 1..Len(incidents) :
          /\ id <= Len(incidents')
          /\ incidents[id].end_time # NULL => incidents'[id] = incidents[id]
          /\ incidents'[id] # incidents[id]
                => /\ incidents'[id].end_time # NULL
                   /\ incidents'[id].site_id = incidents[id].site_id
                   /\ incidents'[id].start_time = incidents[id].start_time]_vars

\* how many entries of sequence q have name n
CountName(q, n) == Cardinality({k \in 1..Len(q) : q[k] = n})

\* C10: a round starts one probe per configured site, and when it returns
\* the result of every probe it started has been received and handled and
\* is among the results it publishes.
C10_NoPartialRound ==
    [][\A l \in DOMAIN loops :
          l \in DOMAIN loops'
          => /\ (loops[l].pc \in {"run", "wait"} /\ loops'[l].pc = "collect")
                => /\ Len(loops'[l].probes) = Len(cfgSites)
                   /\ \A n \in SiteNames :
                         CountName([k \in 1..Len(loops'[l].probes) |->
                                       loops'[l].probes[k].site], n)
                             = CountName(cfgSites, n)
             /\ (loops[l].pc = "collect" /\ loops'[l].pc = "wait")
                => /\ \A k \in 1..Len(loops[l].probes) :
                         loops[l].probes[k].st = "done"
                   /\ Len(storeResults') = Len(loops[l].probes)
                   /\ \A n \in SiteNames :
                         CountName([k \in 1..Len(storeResults') |->
                                       storeResults'[k].name], n)
                             = CountName([k \in 1..Len(loops[l].probes) |->
                                             loops[l].probes[k].site], n)]_vars

\* loop l takes a step that is no restart of the process
Steps(l) ==
    /\ restarts' = restarts
    /\ l \in DOMAIN loops'
    /\ loops'[l] # loops[l]

\* C26: a persistence failure while a round handles the result of one
\* target (site lookup, uptime record, incident read, incident write) is
\* absorbed.  The result stays among the results of the round, the
\* collector goes on to the next result with the probes it started, a
\* result whose lookup and record succeed is written to uptime_records
\* whatever failed before it in the round, and the round publishes all the
\* results it received when it returns.
C26_FailureIsAbsorbed ==
    [][\A l \in DOMAIN loops :
          Steps(l) =>
             LET old == loops[l]
                 new == loops'[l]
             IN  /\ (old.pc = "collect" /\ new.pc # "wait") =>
                        LET res == Last(new.currentResults)
                            h == Last(hist'[res.name])
                        IN  /\ Len(new.currentResults)
                               = Len(old.currentResults) + 1
                            /\ new.probes = [old.probes EXCEPT
                                  ![CHOOSE k \in DOMAIN old.probes :
                                      new.probes[k] # old.probes[k]].st = "done"]
                            /\ new.pc \in {"collect", "notify", "ledger"}
                            /\ new.pc = "collect" => new.i = old.i + 1
                            /\ (res.id # 0 /\ "Uptime.Create" \notin h.failed)
                               => uptimeRecords' =
                                     Append(uptimeRecords,
                                            [site_id |-> res.id,
                                             is_up |-> res.isUp])
                 /\ old.pc = "notify" =>
                        LET res == Last(new.currentResults)
                            h == hist'[old.res.name][old.res.h]
                        IN  /\ new.pc \in {"collect", "ledger"}
                            /\ new.pc = "collect" => new.i = old.i + 1
                            /\ Len(new.currentResults)
                               = Len(old.currentResults)
                            /\ new.probes = old.probes
                            /\ (res.id # 0 /\ "Uptime.Create" \notin h.failed)
                               => uptimeRecords' =
                                     Append(uptimeRecords,
                                            [site_id |-> res.id,
                                             is_up |-> res.isUp])
                 /\ (/\ old.pc \in {"ledger", "write"}
                     /\ hist'[old.res.name][old.res.h].failed
                        # hist[old.res.name][old.res.h].failed) =>
                        /\ new.pc = "collect"
                        /\ new.i = old.i + 1
                        /\ new.currentResults = old.currentResults
                        /\ new.probes = old.probes
                 /\ (old.pc = "collect" /\ new.pc = "wait") =>
                        /\ storeResults' = old.currentResults
                        /\ old.i = Len(old.currentResults)]_vars

\* a round has returned and published two results: the lookup of the
\* first site failed, the second was recorded after it
C26_Witness ==
    /\ Len(storeResults) = 2
    /\ storeResults[1].id = 0
    /\ Last(hist[storeResults[1].name]).failed = {"Site.GetByName"}
    /\ storeResults[2].id # 0
    /\ \E k \in DOMAIN uptimeRecords :
          uptimeRecords[k].site_id = storeResults[2].id
    /\ \A l \in DOMAIN loops : loops[l].pc = "wait"

\* C27: the store serialises the open step of the ledger: when a round
\* creates an incident for a site, the site has no open incident at that
\* moment, also when another round handles a down result of the same site
\* at the same time.
C27_OpenStepIsSerialised ==
    [][Len(incidents') > Len(incidents) =>
          \A id \in 1..Len(incidents) :
              incidents[id].site_id = Last(incidents').site_id
              => incidents[id].end_time # NULL]_vars

\* the events for result j of site s, sent or about to be sent
EventsFor(s, j) ==
    Cardinality({n \in DOMAIN events :
                    events[n].site = s /\ events[n].seq = j})
    + Cardinality({e \in Pending : e.site = s /\ e.seq = j})

\* C28: the detector reads the previous state of a site and writes the new
\* one in one critical section, so the calls of CheckAndNotify for a site
\* take effect in one order, also when rounds overlap: the state recorded
\* is that of the last call, and a call has one event when its result
\* differs from the result of the call before it and none when it does
\* not; no transition is lost and none is reported twice.
C28_DetectorIsAtomic ==
    \A s \in SiteNames :
        /\ s \in DOMAIN previousState <=> hist[s] # <<>>
        /\ hist[s] # <<>> => previousState[s] = Last(hist[s]).isUp
        /\ \A j \in DOMAIN hist[s] :
              EventsFor(s, j) =
                 IF j > 1 /\ hist[s][j].isUp # hist[s][j - 1].isUp
                 THEN 1 ELSE 0

\* two rounds have overlapped on a site: the detector saw it go down in
\* one and come up in the other, and the later event was sent first
C28_Witness ==
    \E n, m \in DOMAIN events :
        /\ n < m
        /\ events[n].site = events[m].site
        /\ events[n].seq > events[m].seq
        /\ Len(loops) >= 2

\* C29: a new round starts on each tick of the interval, whether or not
\* the round before it has finished its database writes: as long as the
\* ticker a loop ranges over is running and sites are configured, the loop
\* can start a round, when it waits for the tick and when it is at the
\* database calls of a result alike.
C29_RoundOnEachTick ==
    \A l \in DOMAIN loops :
        (/\ loops[l].pc \in {"wait", "ledger", "write"}
         /\ loops[l].ticker # 0
         /\ loops[l].ticker = currentTicker
         /\ Len(cfgSites) # 0
         /\ steps + Len(cfgSites) <= MaxSteps)
        => ENABLED RunChecksStart(l)

\* the collector of loop l is at the receive of an iteration whose test
\* i < len(cfg.Sites) holds, and every probe of the round has handed its
\* result over: no goroutine is left to send on the channel of the round
CollectorStuck(l) ==
    /\ loops[l].pc = "collect"
    /\ loops[l].i < Len(cfgSites)
    /\ \A k \in DOMAIN loops[l].probes : loops[l].probes[k].st = "done"

\* C32: every round terminates once each probe it launched has returned:
\* the collector waits for exactly as many results as probes were
\* launched, also when a site is added or deleted while the round is in
\* flight.  No collector waits for a result that no probe will send, and no
\* probe goroutine is left behind by a round that has returned.
C32_RoundTerminates ==
    /\ leaked = 0
    /\ \A l \in DOMAIN loops : ~CollectorStuck(l)

\* a call of startMonitoring made after that of loop l has put its ticker
\* into currentTicker
Superseded(l) == \E m \in DOMAIN loops : m > l /\ loops[m].pc # "start"

\* C35: after a settings change has restarted monitoring, at most one loop
\* keeps starting rounds: a loop that has been superseded and waits for a
\* tick starts no further round, also when two restarts follow each other
\* closely.  The tick that was left in the channel of the loop's ticker
\* when it was stopped is not counted.
C35_SupersededLoopStops ==
    [][\A l \in DOMAIN loops :
          (/\ restarts' = restarts
           /\ Superseded(l)
           /\ loops[l].pc = "wait"
           /\ loops[l].ticker \notin buffered)
          => loops'[l].pc # "collect"]_vars

\* result h of site s is an up result whose handling ends in this step,
\* with no call failed
UpResultHandled(s, h) ==
    /\ restarts' = restarts
    /\ h \in DOMAIN hist[s]
    /\ h \in DOMAIN hist'[s]
    /\ ~hist[s][h].done
    /\ hist'[s][h].done
    /\ hist'[s][h].isUp
    /\ hist'[s][h].failed = {}

\* C37: right after an up result of a site has been handled with no
\* persistence error the site has no open incident: every incident of the
\* site that was open is closed, however many there were.
C37_UpClosesEveryIncident ==
    [][\A s \in SiteNames : \A h \in DOMAIN hist[s] :
          UpResultHandled(s, h) => OpenIds(incidents', SiteID(s)) = {}]_vars

\* ------------------------------------------------- the maintenance service
\*
\* MaintenanceSpec is the scheduler of internal/database/maintenance.go
\* together with the admin request that runs the aggregation on demand.
\* Time is counted in slots, SlotsPerMinute of them to the minute, on the
\* UTC time line; the first instant of day d is d * Day.

Minute == SlotsPerMinute
Hour == 60 * Minute
Day == 24 * Hour

\* the day the runs of the model start in
FirstDay == 1

\* time.Local of the process: west of UTC, UTC, east of UTC
ZoneOffsets == {-5, 0, 3}

\* m.aggregationTime (01:00) and m.cleanupTime (03:00), as time of day
ScheduledTime(task) == IF task = "aggregation" THEN 1 * Hour ELSE 3 * Hour

\* now.Year(), now.Month(), now.Day(): the date of `now` in time.Local
LocalDay(t) == (t + zone * Hour) \div Day

\* the date of an instant in UTC
UtcDay(t) == t \div Day

\* checkAndRunTasks: today := time.Date(now.Year(), now.Month(), now.Day(),
\* 0, 0, 0, 0, time.UTC), the local date read as a UTC midnight
today(t) == LocalDay(t) * Day

isTimeToRunCatchUp(t, scheduledTime) ==
    LET todayScheduled == LocalDay(t) * Day + scheduledTime
        diff == t - todayScheduled
    IN  diff >= 0

\* isTimeToRun: the local date of `now` with the scheduled hour and minute,
\* read as a UTC instant; true in the minute that starts there
isTimeToRun(t, scheduledTime) ==
    LET todayScheduled == LocalDay(t) * Day + scheduledTime
        diff == t - todayScheduled
    IN  diff >= 0 /\ diff < 1 * Minute

runDailyAggregationSameDay(date) == date

\* runDailyAggregation: the date handed to GenerateDailySummariesForAll
runDailyAggregation(date) == date - Day

\* Start runs once, from main, at any time of the day; the model starts
\* the service up to two minutes before the scheduled time of a task, or
\* in the minute after the last scheduled minute of the day
StartTimes ==
    {FirstDay * Day + ScheduledTime(task) - k :
        task \in Tasks, k \in 1..(2 * Minute)}
    \cup {FirstDay * Day + ScheduledTime("cleanup") + Minute + k :
             k \in 0..(Minute - 1)}

\* The specifications of the services leave the monitoring loops out:
\* no site is configured and the variables of the loops keep these values.
MonitoringIdle ==
    /\ cfgSites = <<>>
    /\ siteTable = {}
    /\ previousState = EmptyMap
    /\ events = <<>>
    /\ hist = [s \in SiteNames |-> <<>>]
    /\ incidents = <<>>
    /\ uptimeRecords = <<>>
    /\ auditLogs = <<>>
    /\ now = 0
    /\ loops = <<NewLoop>>
    /\ currentTicker = 0
    /\ buffered = {}
    /\ storeResults = <<>>
    /\ leaked = 0
    /\ steps = 0
    /\ restarts = 0
    /\ ProbeIdle

\* NewMaintenanceService and Start, as main calls them
MaintenanceInit ==
    /\ MonitoringIdle
    /\ ExtraIdle
    /\ AnalyticsIdle
    /\ zone \in ZoneOffsets
    /\ started \in StartTimes
    /\ wall = started
    /\ nextTick = started + 1 * Minute
    /\ launched = {}
    /\ running = [t \in Tasks |-> [by \in Origins |-> 0]]
    /\ msteps = 0

\* runMaintenanceLoop receives a tick and calls checkAndRunTasks, which
\* reads time.Now() `latency` slots after the instant of the tick and
\* starts a goroutine for every task whose minute it is
checkAndRunTasks(latency) ==
    /\ msteps < MaxSteps
    /\ LET t == nextTick + latency
           due == {task \in Tasks : isTimeToRun(t, ScheduledTime(task))}
       IN  /\ wall' = t
           /\ launched' = launched \cup
                  {[task |-> task, by |-> "scheduler", at |-> t,
                    date |-> IF task = "aggregation"
                             THEN runDailyAggregation(today(t))
                             ELSE NULL] : task \in due}
           /\ running' = [task \in Tasks |->
                  IF task \in due
                  THEN [running[task] EXCEPT !["scheduler"] = @ + 1]
                  ELSE running[task]]
    /\ nextTick' = nextTick + 1 * Minute
    /\ msteps' = msteps + 1
    /\ UNCHANGED <<zone, started>>
    /\ UNCHANGED <<monitorVars, dataVars, probeVars, extraVars>>

\* the instants of the first two days up to two minutes before a scheduled
\* time
BeforeScheduled ==
    {d * Day + ScheduledTime(task) - k :
        task \in Tasks, d \in FirstDay..(FirstDay + 1), k \in 1..(2 * Minute)}

\* the instants from a up to b, b left out, at which checkAndRunTasks
\* finds a task to start: isTimeToRun holds only in the minute after the
\* scheduled time of the local date, and the local date of an instant is
\* its UTC date or a neighbour
DueIn(a, b) ==
    {t \in UNION {(d * Day + ScheduledTime(task))
                     ..(d * Day + ScheduledTime(task) + Minute - 1) :
                  task \in Tasks, d \in (FirstDay - 1)..(FirstDay + 2)} :
        /\ a <= t
        /\ t < b
        /\ \E task \in Tasks : isTimeToRun(t, ScheduledTime(task))}

\* runMaintenanceLoop receives the ticks up to instant `to`, one a minute,
\* and checkAndRunTasks finds nothing to start at any of them, however
\* late it reads the clock
IdleTicks(to) ==
    /\ msteps < MaxSteps
    /\ to > nextTick
    /\ (to - nextTick) % Minute = 0
    /\ DueIn(nextTick, to) = {}
    /\ wall' = to - Minute
    /\ nextTick' = to
    /\ msteps' = msteps + 1
    /\ UNCHANGED <<zone, started, launched, running>>
    /\ UNCHANGED <<monitorVars, dataVars, probeVars, extraVars>>

\* POST /api/admin/generate-summary: the handler runs
\* GenerateDailySummariesForAll(time.Now().AddDate(0, 0, -1)) itself
GenerateSummaryHandler ==
    /\ msteps < MaxSteps
    /\ launched' = launched \cup
           {[task |-> "aggregation", by |-> "admin", at |-> wall,
             date |-> wall - Day]}
    /\ running' = [running EXCEPT !["aggregation"]["admin"] = @ + 1]
    /\ msteps' = msteps + 1
    /\ UNCHANGED <<zone, started, wall, nextTick>>
    /\ UNCHANGED <<monitorVars, dataVars, probeVars, extraVars>>

\* a run of runDailyAggregation, runDataCleanup or the handler returns
RunReturn(task, by) ==
    /\ running[task][by] > 0
    /\ running' = [running EXCEPT ![task][by] = @ - 1]
    /\ UNCHANGED <<zone, started, wall, nextTick, launched, msteps>>
    /\ UNCHANGED <<monitorVars, dataVars, probeVars, extraVars>>

MaintenanceNext ==
    \/ \E latency \in 0..(Minute - 1) : checkAndRunTasks(latency)
    \/ \E to \in BeforeScheduled : IdleTicks(to)
    \/ GenerateSummaryHandler
    \/ \E task \in Tasks, by \in Origins : RunReturn(task, by)

MaintenanceSpec == MaintenanceInit /\ [][MaintenanceNext]_vars

MaintenanceTypeOK ==
    /\ zone \in ZoneOffsets
    /\ started \in StartTimes
    /\ wall \in Nat
    /\ nextTick \in Nat
    /\ \A r \in launched : r.task \in Tasks /\ r.by \in Origins
    /\ running \in [Tasks -> [Origins -> Nat]]
    /\ msteps \in 0..MaxSteps

\* the instant a task is scheduled for on day d
ScheduledAt(task, d) == d * Day + ScheduledTime(task)

\* the runs of a task the scheduler has started
Fired(task) == {r \in launched : r.by = "scheduler" /\ r.task = task}

\* C11: while the service runs, each daily trigger fires exactly once per
\* calendar day.  Stated for the scheduled minute of the first day: when
\* the service was started before that minute and a tick has been handled
\* after it, so that no later tick can fire the trigger for that day, the
\* scheduler has started the task exactly once.
C11_FiresOncePerDay ==
    \A task \in Tasks :
        (/\ started < ScheduledAt(task, FirstDay)
         /\ wall >= ScheduledAt(task, FirstDay) + Minute)
        => Cardinality({r \in Fired(task) : UtcDay(r.at) = FirstDay}) = 1

\* C12: maintenance runs do not overlap: at no time do two runs of the
\* daily aggregation, or two runs of the cleanup, execute together, a run
\* started by the admin request included.
C12_RunsDoNotOverlap ==
    \A task \in Tasks :
        running[task]["scheduler"] >= 1
        => running[task]["scheduler"] + running[task]["admin"] = 1

\* C17: the aggregation the scheduler starts summarises the calendar day
\* right before the day it fires on: the day handed to
\* GenerateDailySummariesForAll ends where the day of the firing starts,
\* in UTC and in local time alike.
C17_AggregatesYesterday ==
    \A r \in Fired("aggregation") :
        /\ r.date + Day = UtcDay(r.at) * Day
        /\ UtcDay(r.at) = LocalDay(r.at)

\* the scheduler has started an aggregation
C17_Witness == Fired("aggregation") # {}

MaxRecords == 1
MaxJobs == 2

\* the day the runs of this specification happen on
Today == FirstDay + 1

\* rows of table sites, in the order of SiteRepository.GetAll
SiteRows == <<1, 2>>

\* what runChecks stores of a CheckSite result: up with the status of the
\* response (below 400), or down with status 0, and the latency in whole
\* milliseconds: an answer after 40 ms, an answer within the millisecond,
\* a failure after 90 ms
Outcomes == {[is_up |-> TRUE, status_code |-> 200, latency_ms |-> 40],
             [is_up |-> TRUE, status_code |-> 304, latency_ms |-> 0],
             [is_up |-> FALSE, status_code |-> 0, latency_ms |-> 90]}

\* the instants of the rows: noon of the day, 00:30 of the day
Noon(d) == d * Day + 12 * Hour
Early(d) == d * Day + 30 * Minute

\* runChecks: the uptime record of a probe of site s at instant t
UptimeRecord(s, t, o) ==
    [site_id |-> s, timestamp |-> t, is_up |-> o.is_up,
     status_code |-> o.status_code, latency_ms |-> o.latency_ms]

\* the probes of yesterday: those of site 1 from noon on, one slot apart,
\* with any outcomes (the order of the outcomes makes no difference to the
\* services, so they are taken in one order); one of site 2
Rank(o) == IF ~o.is_up THEN 3 ELSE IF o.status_code = 200 THEN 1 ELSE 2

Profiles ==
    {p \in UNION {[1..n -> Outcomes] : n \in 0..MaxRecords} :
        \A k \in 1..(Len(p) - 1) : Rank(p[k]) <= Rank(p[k + 1])}

Yesterday(profile) ==
    {UptimeRecord(1, Noon(Today - 1) + k, profile[k]) : k \in DOMAIN profile}
    \cup {UptimeRecord(2, Noon(Today - 1),
                       [is_up |-> TRUE, status_code |-> 200,
                        latency_ms |-> 40])}

\* today's probe of site 1
Recent ==
    {UptimeRecord(1, Early(Today),
                  [is_up |-> TRUE, status_code |-> 200, latency_ms |-> 40])}

\* m.cleanupRetentionDays, from the settings
RetentionChoices == {0, 1}

\* createUptimeSummaryTable: the columns of table uptime_summary
TableColumns ==
    {"id", "site_id", "date", "total_checks", "successful_checks",
     "uptime_percentage", "avg_latency_ms", "min_latency_ms",
     "max_latency_ms", "created_at", "updated_at"}

\* UptimeSummaryRepository.Create: the columns its INSERT names
InsertColumns ==
    {"site_id", "date", "total_checks", "successful_checks", "failed_checks",
     "uptime_percentage", "avg_latency_ms", "min_latency_ms",
     "max_latency_ms", "downtime_minutes", "incident_count", "created_at",
     "updated_at"}

\* UptimeSummaryRepository.Create: the columns its UPDATE names
UpdateColumns ==
    {"total_checks", "successful_checks", "failed_checks",
     "uptime_percentage", "avg_latency_ms", "min_latency_ms",
     "max_latency_ms", "downtime_minutes", "incident_count", "updated_at",
     "site_id", "date"}

\* a time.Time carries its location; the year, month and day of a date are
\* read in it
DateDay(date) == IF date.loc = "UTC" THEN UtcDay(date.t) ELSE LocalDay(date.t)

NoDate == [t |-> 0, loc |-> "UTC"]

\* the time column of a table, which GetByDateRange and DeleteOlderThan
\* compare
RowTime(category, r) ==
    CASE category = "uptime_records" -> r.timestamp
      [] category = "downtime_incidents" -> r.start_time
      [] category = "uptime_summary" -> DateDay(r.date) * Day
      [] category = "notification_logs" -> r.sent_at
      [] category = "audit_logs" -> r.timestamp

\* GetByDateRange of uptime records and of incidents: BETWEEN startTime
\* AND endTime, the UTC day of the date up to its last nanosecond
GetByDateRange(category, rows, siteID, startTime, endTime) ==
    {r \in rows : /\ r.site_id = siteID
                  /\ RowTime(category, r) >= startTime
                  /\ RowTime(category, r) < endTime}

RECURSIVE SumMinutes(_)
SumMinutes(rows) ==
    IF rows = {} THEN 0
    ELSE LET r == CHOOSE x \in rows : TRUE
         IN  (IF r.duration_seconds > 0 THEN r.duration_seconds \div 60 ELSE 0)
             + SumMinutes(rows \ {r})

FailedChecksDown(records, successfulChecks) ==
    Cardinality({r \in records : ~r.is_up})

\* GenerateDailySummary: failedChecks := totalChecks - successfulChecks
FailedChecks(records, successfulChecks) ==
    Cardinality(records) - successfulChecks

SuccessfulCheckUp(r) == r.is_up

\* GenerateDailySummary: if record.IsUp && record.StatusCode >= 200 &&
\* record.StatusCode < 300 { successfulChecks++ }
SuccessfulCheck(r) ==
    r.is_up /\ r.status_code >= 200 /\ r.status_code < 300

\* GenerateDailySummary: if record.LatencyMs > 0 the latency enters
\* totalLatency, minLatency and maxLatency
Timed(records) == {r \in records : r.latency_ms > 0}

RECURSIVE TotalLatency(_)
TotalLatency(records) ==
    IF records = {} THEN 0
    ELSE LET r == CHOOSE x \in records : TRUE
         IN  r.latency_ms + TotalLatency(records \ {r})

\* minLatency starts at math.MaxInt64 and is set to 0 when it still holds
\* it after the loop; maxLatency starts at 0
MinLatency(records) ==
    IF Timed(records) = {} THEN 0
    ELSE CHOOSE m \in {r.latency_ms : r \in Timed(records)} :
             \A r \in Timed(records) : m <= r.latency_ms

MaxLatency(records) ==
    IF Timed(records) = {} THEN 0
    ELSE CHOOSE m \in {r.latency_ms : r \in Timed(records)} :
             \A r \in Timed(records) : m >= r.latency_ms

\* a float64 quotient, kept as the fraction it is the value of
Quotient(n, d) == [num |-> n, den |-> d]

\* GenerateDailySummary: the summary built from the records and incidents
\* of the day; uptimePercentage is successfulChecks / totalChecks * 100
\* and avgLatency is totalLatency / totalChecks when totalChecks > 0
Summarise(siteID, summaryDate, records, incs) ==
    LET totalChecks == Cardinality(records)
        successfulChecks ==
            Cardinality({r \in records : SuccessfulCheck(r)})
        totalLatency == TotalLatency(Timed(records))
    IN  [site_id |-> siteID,
         date |-> summaryDate,
         total_checks |-> totalChecks,
         successful_checks |-> successfulChecks,
         failed_checks |-> FailedChecks(records, successfulChecks),
         uptime_percentage |-> Quotient(successfulChecks * 100, totalChecks),
         avg_latency_ms |-> IF totalChecks > 0
                            THEN Quotient(totalLatency, totalChecks)
                            ELSE Quotient(0, 1),
         min_latency_ms |-> MinLatency(records),
         max_latency_ms |-> MaxLatency(records),
         downtime_minutes |-> SumMinutes(incs),
         incident_count |-> Cardinality(incs)]

NoSummary == [site_id |-> 0]

SkipsEmptyNever(records) == FALSE

\* GenerateDailySummary: if len(records) == 0 { return nil }
SkipsEmpty(records) == records = {}

\* UptimeSummaryRepository.Create: SELECT EXISTS for (site_id, date), then
\* UPDATE or INSERT; a statement that names a column the table does not
\* have fails
SummaryCreate(rows, summary) ==
    LET exists == \E r \in rows : /\ r.site_id = summary.site_id
                                  /\ r.date = summary.date
    IN  IF exists
        THEN IF UpdateColumns \subseteq TableColumns
             THEN [rows |-> {r \in rows : ~(/\ r.site_id = summary.site_id
                                            /\ r.date = summary.date)}
                            \cup {summary},
                   err |-> FALSE]
             ELSE [rows |-> rows, err |-> TRUE]
        ELSE IF InsertColumns \subseteq TableColumns
             THEN [rows |-> rows \cup {summary}, err |-> FALSE]
             ELSE [rows |-> rows, err |-> TRUE]

\* DeleteOlderThan: cutoff := time.Now().AddDate(0, 0, -days), as an
\* instant; the summaries compare the date with the local day of the cutoff
Cutoff(category, t, days) ==
    IF category = "uptime_summary"
    THEN LocalDay(t - days * Day) * Day
    ELSE t - days * Day

\* DeleteOlderThan: DELETE ... WHERE <time column> < cutoff
DeleteOlderThan(category, rows, t, days) ==
    {r \in rows : ~(RowTime(category, r) < Cutoff(category, t, days))}

CleanupNextContinue(k, failed) == IF k = Len(CleanupOrder) THEN 0 ELSE k + 1

\* CleanupOldData: the category after category k, 0 for return; every
\* failed DeleteOlderThan returns the error
CleanupNext(k, failed) ==
    IF failed \/ k = Len(CleanupOrder) THEN 0 ELSE k + 1

ForAllNextAbort(i, n, failed) == IF failed \/ i = n THEN 0 ELSE i + 1

\* GenerateDailySummariesForAll: the site after site i of n, 0 for return;
\* a failed GenerateDailySummary is logged
ForAllNext(i, n, failed) == IF i = n THEN 0 ELSE i + 1

\* the database of a process in zone UTC that has been monitoring for two
\* days: some uptime records, one closed incident of site 1 yesterday,
\* notification logs and audit logs from two days ago and from today
AnalyticsInit ==
    /\ MonitoringIdle
    /\ ExtraIdle
    /\ zone = 0
    /\ started \in {ScheduledAt(task, Today) : task \in Tasks}
    /\ wall = started
    /\ nextTick = 0
    /\ launched = {}
    /\ running = [t \in Tasks |-> [by \in Origins |-> 0]]
    /\ msteps = 0
    /\ \E profile \in Profiles :
          /\ tables =
               [c \in Range(CleanupOrder) |->
                  CASE c = "uptime_records" ->
                          Yesterday(profile) \cup Recent
                    [] c = "downtime_incidents" ->
                          {[site_id |-> 1,
                            start_time |-> Noon(Today - 1),
                            duration_seconds |-> 150]}
                    [] c = "uptime_summary" -> {}
                    [] c = "notification_logs" ->
                          {[sent_at |-> Noon(Today - 2)],
                           [sent_at |-> Early(Today)]}
                    [] c = "audit_logs" ->
                          {[timestamp |-> Noon(Today - 2)],
                           [timestamp |-> Early(Today)]}]
    /\ jobs = <<>>
    /\ retentionDays \in RetentionChoices
    /\ asteps = 0

schedVars == <<zone, started, wall, nextTick, launched, running, msteps>>

\* a run: its task and origin, the date it aggregates or the retention it
\* cleans with, where it is (i of n sites or categories; pc "done" once
\* it has returned), what it did for each site, the categories it deleted
\* from and what it returned
NewJob == [task |-> "aggregation", by |-> "scheduler", date |-> NoDate,
           days |-> 0, pc |-> "run", i |-> 1, n |-> 0, outcomes |-> <<>>,
           deleted |-> <<>>, result |-> "nil"]

\* the calls of one GenerateDailySummary that can fail
SummaryCalls == {"Uptime.GetByDateRange", "Incident.GetByDateRange",
                 "UptimeSummary.Create"}

\* checkAndRunTasks starts runDailyAggregation(today) in the minute of the
\* aggregation; the admin request runs GenerateDailySummariesForAll with
\* time.Now().AddDate(0, 0, -1), a full timestamp in time.Local.
\* GenerateDailySummariesForAll begins with Site.GetAll and returns its
\* error.
GenerateDailySummariesForAll(by, fail) ==
    /\ asteps + (IF fail THEN 2 ELSE 1) <= MaxSteps
    /\ Len(jobs) < MaxJobs
    /\ by = "scheduler" => isTimeToRun(wall, ScheduledTime("aggregation"))
    /\ jobs' = Append(jobs,
           [NewJob EXCEPT
              !.by = by,
              !.date = IF by = "scheduler"
                       THEN [t |-> runDailyAggregation(today(wall)),
                             loc |-> "UTC"]
                       ELSE [t |-> wall - Day, loc |-> "Local"],
              !.n = IF fail THEN 0 ELSE Len(SiteRows),
              !.pc = IF fail \/ Len(SiteRows) = 0 THEN "done" ELSE "run",
              !.result = IF fail THEN "error" ELSE "nil"])
    /\ asteps' = asteps + (IF fail THEN 2 ELSE 1)
    /\ UNCHANGED <<monitorVars, probeVars, extraVars, schedVars, tables, retentionDays>>

\* GenerateDailySummary of site i and the step of the loop of
\* GenerateDailySummariesForAll after it: read the uptime records of the
\* day, return nil when there are none, count, read the incidents of the
\* day, build the summary and hand it to UptimeSummary.Create.  F holds
\* the call that fails, if one does.
GenerateDailySummary(j, F) ==
    /\ jobs[j].task = "aggregation"
    /\ jobs[j].pc = "run"
    /\ asteps + Cardinality(F) <= MaxSteps
    /\ asteps' = asteps + Cardinality(F)
    /\ LET siteID == SiteRows[jobs[j].i]
           summaryDate == jobs[j].date
           startTime == DateDay(summaryDate) * Day
           endTime == startTime + Day
           records == GetByDateRange("uptime_records",
                                     tables.uptime_records, siteID,
                                     startTime, endTime)
           incs == GetByDateRange("downtime_incidents",
                                  tables.downtime_incidents, siteID,
                                  startTime, endTime)
           summary == Summarise(siteID, summaryDate, records, incs)
           created == SummaryCreate(tables.uptime_summary, summary)
           outcome ==
               IF "Uptime.GetByDateRange" \in F
               THEN [result |-> "error", create |-> FALSE]
               ELSE IF SkipsEmpty(records)
               THEN [result |-> "nil", create |-> FALSE]
               ELSE IF "Incident.GetByDateRange" \in F
               THEN [result |-> "error", create |-> FALSE]
               ELSE IF "UptimeSummary.Create" \in F \/ created.err
               THEN [result |-> "error", create |-> TRUE]
               ELSE [result |-> "nil", create |-> TRUE]
           next == ForAllNext(jobs[j].i, jobs[j].n, outcome.result = "error")
       IN  \* a call that is not reached cannot fail
           /\ SkipsEmpty(records) => F \subseteq {"Uptime.GetByDateRange"}
           /\ tables' = IF outcome.create /\ F = {}
                        THEN [tables EXCEPT !.uptime_summary = created.rows]
                        ELSE tables
           /\ jobs' = [jobs EXCEPT
                  ![j].outcomes =
                      Append(@, [site_id |-> siteID,
                                 records |-> Cardinality(records),
                                 injected |-> F # {},
                                 create |-> outcome.create,
                                 summary |-> IF outcome.create THEN summary
                                             ELSE NoSummary,
                                 result |-> outcome.result]),
                  ![j].i = IF next = 0 THEN @ ELSE next,
                  ![j].pc = IF next = 0 THEN "done" ELSE "run"]
    /\ UNCHANGED <<monitorVars, probeVars, extraVars, schedVars, retentionDays>>

\* checkAndRunTasks starts runDataCleanup in the minute of the cleanup;
\* runDataCleanup reads the retention and calls CleanupOldData
runDataCleanup ==
    /\ asteps < MaxSteps
    /\ Len(jobs) < MaxJobs
    /\ isTimeToRun(wall, ScheduledTime("cleanup"))
    /\ jobs' = Append(jobs,
           [NewJob EXCEPT !.task = "cleanup", !.days = retentionDays,
                          !.n = Len(CleanupOrder)])
    /\ asteps' = asteps + 1
    /\ UNCHANGED <<monitorVars, probeVars, extraVars, schedVars, tables, retentionDays>>

\* CleanupOldData: DeleteOlderThan of category i, which fails or deletes
CleanupOldData(j, fail) ==
    /\ jobs[j].task = "cleanup"
    /\ jobs[j].pc = "run"
    /\ fail => asteps < MaxSteps
    /\ asteps' = asteps + IF fail THEN 1 ELSE 0
    /\ LET k == jobs[j].i
           category == CleanupOrder[k]
           next == CleanupNext(k, fail)
       IN  /\ tables' = IF fail THEN tables
                        ELSE [tables EXCEPT
                                ![category] =
                                    DeleteOlderThan(category, @, wall,
                                                    jobs[j].days)]
           /\ jobs' = [jobs EXCEPT
                  ![j].deleted = IF fail THEN @ ELSE Append(@, category),
                  ![j].result = IF fail THEN "error" ELSE @,
                  ![j].i = IF next = 0 THEN @ ELSE next,
                  ![j].pc = IF next = 0 THEN "done" ELSE "run"]
    /\ UNCHANGED <<monitorVars, probeVars, extraVars, schedVars, retentionDays>>

AnalyticsNext ==
    \/ \E by \in Origins, fail \in BOOLEAN :
          GenerateDailySummariesForAll(by, fail)
    \/ \E j \in DOMAIN jobs, F \in {{}} \cup {{c} : c \in SummaryCalls} :
          GenerateDailySummary(j, F)
    \/ runDataCleanup
    \/ \E j \in DOMAIN jobs, fail \in BOOLEAN : CleanupOldData(j, fail)

AnalyticsSpec == AnalyticsInit /\ [][AnalyticsNext]_vars

AnalyticsTypeOK ==
    /\ DOMAIN tables = Range(CleanupOrder)
    /\ \A r \in tables.uptime_records : r.site_id \in Range(SiteRows)
    /\ \A j \in DOMAIN jobs :
          /\ jobs[j].task \in Tasks
          /\ jobs[j].pc \in {"run", "done"}
          /\ jobs[j].result \in {"nil", "error"}
          /\ jobs[j].i \in 1..Len(CleanupOrder)
    /\ retentionDays \in RetentionChoices
    /\ asteps \in 0..MaxSteps

\* ---------------------------------------- properties of the analytics service

\* the runs of the aggregation that have returned
DoneAggregations ==
    {j \in DOMAIN jobs : jobs[j].task = "aggregation" /\ jobs[j].pc = "done"}

\* no cleanup has been started
NoCleanup == \A j \in DOMAIN jobs : jobs[j].task = "aggregation"

\* the rows of uptime_summary of a site for a calendar day
SummaryRows(siteID, day) ==
    {r \in tables.uptime_summary : r.site_id = siteID /\ DateDay(r.date) = day}

\* the sites a run found records for and aggregated with no failing call
Aggregated(j) ==
    {k \in DOMAIN jobs[j].outcomes :
        jobs[j].outcomes[k].records > 0 /\ ~jobs[j].outcomes[k].injected}

\* C13: running the daily aggregation twice for the same target and
\* calendar date, by the scheduler, by the admin request or one of each,
\* leaves exactly one summary row for that target and date.
C13_TwoRunsOneRow ==
    \A a, b \in DoneAggregations :
        (/\ a < b
         /\ NoCleanup
         /\ DateDay(jobs[a].date) = DateDay(jobs[b].date))
        => \A k \in Aggregated(a) \cap Aggregated(b) :
              Cardinality(SummaryRows(jobs[a].outcomes[k].site_id,
                                      DateDay(jobs[a].date))) = 1

\* C14: the cleanup deletes only uptime records strictly older than the
\* cutoff (now minus the retention, in days) and never one of the current
\* day, whatever the retention, 0 included.
C14_KeepsToday ==
    [][\A r \in tables.uptime_records \ tables'.uptime_records :
          /\ r.timestamp < wall - retentionDays * Day
          /\ LocalDay(r.timestamp) # LocalDay(wall)]_vars

\* the categories a run of the cleanup deleted from
Deleted(j) == Range(jobs[j].deleted)

\* the row of two days ago, older than every cutoff of the model
OldRow(category) ==
    IF category = "notification_logs" THEN [sent_at |-> Noon(Today - 2)]
    ELSE [timestamp |-> Noon(Today - 2)]

\* C15: the cleanup is fail-fast.  A run deletes the categories in the
\* order uptime records, incidents, summaries, notification logs, audit
\* logs; it returns the error of the first deletion that fails and has
\* then deleted from the categories before it and from no later one; the
\* categories it deleted from hold no row older than the cutoff, and a
\* category no run deleted from still holds its old row.
C15_CleanupFailFast ==
    /\ \A j \in DOMAIN jobs :
          jobs[j].task = "cleanup" =>
             /\ jobs[j].deleted = SubSeq(CleanupOrder, 1, Len(jobs[j].deleted))
             /\ jobs[j].result = "error" =>
                   /\ jobs[j].pc = "done"
                   /\ Len(jobs[j].deleted) < Len(CleanupOrder)
             /\ (jobs[j].pc = "done" /\ jobs[j].result = "nil") =>
                   jobs[j].deleted = CleanupOrder
             /\ \A c \in Deleted(j) :
                   \A r \in tables[c] :
                       ~(RowTime(c, r) < Cutoff(c, wall, jobs[j].days))
    /\ \A c \in {"notification_logs", "audit_logs"} :
          (\A j \in DOMAIN jobs : c \notin Deleted(j)) => OldRow(c) \in tables[c]

\* a run of the cleanup has failed after it deleted from the first
\* categories, and the later ones hold their old rows
C15_Witness ==
    \E j \in DOMAIN jobs :
        /\ jobs[j].task = "cleanup"
        /\ jobs[j].pc = "done"
        /\ jobs[j].result = "error"
        /\ Len(jobs[j].deleted) >= 1
        /\ Len(jobs) = 1

\* C16: the aggregation of the whole fleet is best-effort: a run that got
\* the sites has, when it returns, attempted every site in order, also
\* after a site whose summary failed, and returns no error.
C16_FleetBestEffort ==
    \A j \in DoneAggregations :
        jobs[j].n > 0 =>
           /\ jobs[j].result = "nil"
           /\ Len(jobs[j].outcomes) = Len(SiteRows)
           /\ \A k \in DOMAIN jobs[j].outcomes :
                 jobs[j].outcomes[k].site_id = SiteRows[k]

\* a run has returned in which the summary of the first site failed
C16_Witness ==
    \E j \in DoneAggregations :
        /\ jobs[j].n > 0
        /\ jobs[j].outcomes[1].result = "error"
        /\ jobs[j].result = "nil"

\* C18: a target with no uptime record on the aggregated date gets no
\* summary row: GenerateDailySummary returns nil without calling
\* UptimeSummary.Create, and the summary table is as it was.
C18_NoRecordsNoRow ==
    [][\A j \in DOMAIN jobs :
          (/\ j \in DOMAIN jobs'
           /\ Len(jobs'[j].outcomes) = Len(jobs[j].outcomes) + 1) =>
             LET o == jobs'[j].outcomes[Len(jobs'[j].outcomes)]
             IN  (o.records = 0 /\ ~o.injected) =>
                    /\ o.result = "nil"
                    /\ ~o.create
                    /\ tables'.uptime_summary = tables.uptime_summary]_vars

\* a run has aggregated a site that has no record on the date
C18_Witness ==
    \E j \in DOMAIN jobs : \E k \in DOMAIN jobs[j].outcomes :
        /\ jobs[j].outcomes[k].records = 0
        /\ ~jobs[j].outcomes[k].injected
        /\ jobs[j].outcomes[k].result = "nil"

\* C19: for each target with at least one uptime record on the aggregated
\* date the aggregation stores one summary row for (target, date) with
\* the counts, the downtime minutes and the incident count it computed.
C19_SummaryStored ==
    \A j \in DoneAggregations :
        NoCleanup =>
           \A k \in Aggregated(j) :
              /\ jobs[j].outcomes[k].result = "nil"
              /\ SummaryRows(jobs[j].outcomes[k].site_id,
                             DateDay(jobs[j].date))
                 = {jobs[j].outcomes[k].summary}

\* the summaries GenerateDailySummary has built
Generated ==
    {jobs[j[1]].outcomes[j[2]].summary :
        j \in {p \in (DOMAIN jobs) \X (1..Len(SiteRows)) :
                  /\ p[2] \in DOMAIN jobs[p[1]].outcomes
                  /\ jobs[p[1]].outcomes[p[2]].create}}

\* C20: every summary the aggregation generates has successful_checks +
\* failed_checks = total_checks, 0 <= successful_checks <= total_checks
\* and total_checks >= 1.
C20_ChecksAddUp ==
    \A s \in Generated :
        /\ s.successful_checks + s.failed_checks = s.total_checks
        /\ 0 <= s.successful_checks
        /\ s.successful_checks <= s.total_checks
        /\ s.total_checks >= 1

\* a summary has been generated from a day with a check that is not
\* successful
C20_Witness == \E s \in Generated : s.failed_checks >= 1

\* ------------------------------------------------------ the daily summary
\*
\* SummarySpec runs the aggregation alone, in the minute the scheduler
\* starts it, over a day with more probes and with incidents that reach
\* into the day from the day before.

MaxProbes == 2

\* the seconds of a day, the unit of duration_seconds
SecondsPerDay == 24 * 60 * 60

\* the probes of site 1 yesterday, any outcomes in one order
ProbeProfiles ==
    {p \in UNION {[1..n -> Outcomes] : n \in 0..MaxProbes} :
        \A k \in 1..(Len(p) - 1) : Rank(p[k]) <= Rank(p[k + 1])}

\* runChecks: an incident is created with no end_time and duration 0 and
\* closed with the end_time and the seconds it lasted.  Site 1 has one
\* incident within yesterday and one from noon of the day before to noon
\* of yesterday; site 2 has been down since noon of the day before.
IncidentRows ==
    {[site_id |-> 1, start_time |-> Noon(Today - 1),
      end_time |-> Noon(Today - 1) + 3 * Minute, duration_seconds |-> 150],
     [site_id |-> 1, start_time |-> Noon(Today - 2),
      end_time |-> Noon(Today - 1), duration_seconds |-> SecondsPerDay],
     [site_id |-> 2, start_time |-> Noon(Today - 2),
      end_time |-> NULL, duration_seconds |-> 0]}

SummaryInit ==
    /\ MonitoringIdle
    /\ ExtraIdle
    /\ zone = 0
    /\ started = ScheduledAt("aggregation", Today)
    /\ wall = started
    /\ nextTick = 0
    /\ launched = {}
    /\ running = [t \in Tasks |-> [by \in Origins |-> 0]]
    /\ msteps = 0
    /\ \E profile \in ProbeProfiles :
          tables =
             [c \in Range(CleanupOrder) |->
                CASE c = "uptime_records" -> Yesterday(profile) \cup Recent
                  [] c = "downtime_incidents" -> IncidentRows
                  [] OTHER -> {}]
    /\ jobs = <<>>
    /\ retentionDays = 1
    /\ asteps = 0

SummaryNext ==
    \/ \E by \in Origins, fail \in BOOLEAN :
          GenerateDailySummariesForAll(by, fail)
    \/ \E j \in DOMAIN jobs, F \in {{}} \cup {{c} : c \in SummaryCalls} :
          GenerateDailySummary(j, F)

SummarySpec == SummaryInit /\ [][SummaryNext]_vars

\* the run and the site of every summary GenerateDailySummary has built
Builds ==
    {p \in (DOMAIN jobs) \X (1..Len(SiteRows)) :
        /\ p[2] \in DOMAIN jobs[p[1]].outcomes
        /\ jobs[p[1]].outcomes[p[2]].create}

BuiltSummary(p) == jobs[p[1]].outcomes[p[2]].summary

\* the uptime records of the site and the UTC day of a summary
DayRecords(s) ==
    {r \in tables.uptime_records :
        r.site_id = s.site_id /\ UtcDay(r.timestamp) = DateDay(s.date)}

\* C21: in a daily summary, successful_checks is the number of the day's
\* records of the site with is_up true and a status code of 200 to 299,
\* and uptime_percentage is successful_checks / total_checks * 100.
C21_SuccessfulAndPercentage ==
    \A p \in Builds :
        NoCleanup =>
           LET s == BuiltSummary(p)
               ok == {r \in DayRecords(s) :
                         r.is_up /\ r.status_code \in 200..299}
           IN  /\ s.successful_checks = Cardinality(ok)
               /\ s.total_checks = Cardinality(DayRecords(s))
               /\ s.uptime_percentage.den > 0
               /\ s.uptime_percentage.num * s.total_checks
                  = s.successful_checks * 100 * s.uptime_percentage.den

\* a summary of a day with a record that is up with a status outside 2xx
\* and a record that is up with 2xx: 50 percent
C21_Witness ==
    \E p \in Builds :
        LET s == BuiltSummary(p)
        IN  /\ NoCleanup
            /\ \E r \in DayRecords(s) : r.is_up /\ r.status_code >= 300
            /\ s.successful_checks = 1
            /\ s.total_checks = 2

\* C22: the min, avg and max latency of a daily summary are computed over
\* the day's records with non-zero latency only: avg is the sum of the
\* non-zero latencies divided by the number of those records, and
\* min <= avg <= max whenever there is such a record.
C22_LatencyOverNonZero ==
    \A p \in Builds :
        NoCleanup =>
           LET s == BuiltSummary(p)
               nz == {r \in DayRecords(s) : r.latency_ms # 0}
               avg == s.avg_latency_ms
           IN  nz # {} =>
                  /\ \A r \in nz : /\ s.min_latency_ms <= r.latency_ms
                                   /\ r.latency_ms <= s.max_latency_ms
                  /\ \E r \in nz : s.min_latency_ms = r.latency_ms
                  /\ \E r \in nz : s.max_latency_ms = r.latency_ms
                  /\ avg.num * Cardinality(nz) = TotalLatency(nz) * avg.den
                  /\ s.min_latency_ms * avg.den <= avg.num
                  /\ avg.num <= s.max_latency_ms * avg.den

\* the incidents of the site of a summary that overlap its day: started
\* before the day ends, and still open or ended after the day starts
Overlapping(s) ==
    {i \in tables.downtime_incidents :
        /\ i.site_id = s.site_id
        /\ i.start_time < (DateDay(s.date) + 1) * Day
        /\ i.end_time = NULL \/ i.end_time > DateDay(s.date) * Day}

\* the minutes an incident has lasted when the day of a summary ends
MinutesBy(s, i) ==
    IF i.end_time # NULL THEN i.duration_seconds \div 60
    ELSE ((DateDay(s.date) + 1) * Day - i.start_time) \div Minute

RECURSIVE SumOverlapping(_, _)
SumOverlapping(s, incs) ==
    IF incs = {} THEN 0
    ELSE LET i == CHOOSE x \in incs : TRUE
         IN  MinutesBy(s, i) + SumOverlapping(s, incs \ {i})

\* C23: in a daily summary, downtime_minutes is summed from every
\* incident that overlaps the aggregated day, those that started before
\* the day and ended during it included, and incident_count is the number
\* of incidents whose start_time falls on that day.
C23_DowntimeOverlapping ==
    \A p \in Builds :
        NoCleanup =>
           LET s == BuiltSummary(p)
           IN  /\ s.downtime_minutes = SumOverlapping(s, Overlapping(s))
               /\ s.incident_count =
                      Cardinality({i \in tables.downtime_incidents :
                                     /\ i.site_id = s.site_id
                                     /\ UtcDay(i.start_time) = DateDay(s.date)})

\* ------------------------------------------------------------- the probe
\*
\* ProbeSpec follows the calls of CheckSite alone: what client.Get gave
\* and the Result CheckSite returned for it.

\* the status codes of the responses client.Get hands over: 1xx responses
\* other than 101 are consumed by the transport, a redirect without a
\* Location is handed over as it is
StatusCodes == {101, 200, 204, 301, 304, 399, 400, 404, 500}

\* client.Get returns an error and no response (DNS, connection, TLS,
\* timeout, too many redirects), or a response
Responses ==
    {[err |-> TRUE, StatusCode |-> NULL]}
    \cup {[err |-> FALSE, StatusCode |-> c] : c \in StatusCodes}

\* CheckSite: if err != nil || resp.StatusCode >= 400 the Result is down
\* with StatusCode 0, else up with the status of the response
CheckSite(name, resp) ==
    IF resp.err \/ resp.StatusCode >= 400
    THEN [Name |-> name, StatusCode |-> 0, IsUp |-> FALSE]
    ELSE [Name |-> name, StatusCode |-> resp.StatusCode, IsUp |-> TRUE]

ProbeInit ==
    /\ MonitoringIdle
    /\ ExtraIdle
    /\ MaintenanceIdle
    /\ AnalyticsIdle

\* a probe goroutine of runChecks calls CheckSite for a site and gets the
\* Result
CheckSiteCall(name, resp) ==
    /\ Len(checked) < MaxProbes
    /\ checked' = Append(checked, [resp |-> resp,
                                   result |-> CheckSite(name, resp)])
    /\ UNCHANGED <<monitorVars, maintVars, dataVars, extraVars>>

ProbeNext == \E name \in SiteNames, resp \in Responses : CheckSiteCall(name, resp)

ProbeSpec == ProbeInit /\ [][ProbeNext]_vars

\* C24: a probe result has is_up = true if and only if the HTTP request
\* returned without transport error and the status code of the response
\* is in [200, 400).
C24_UpIffNoErrorAndBelow400 ==
    \A k \in DOMAIN checked :
        checked[k].result.IsUp
        <=> (/\ ~checked[k].resp.err
             /\ checked[k].resp.StatusCode >= 200
             /\ checked[k].resp.StatusCode < 400)

\* C25: a failed probe has http_status 0 only for a transport error; for
\* a response with a status of 400 or more the result carries the status
\* of the response, and so does the result of a successful probe.
C25_StatusOfFailedProbe ==
    \A k \in DOMAIN checked :
        LET resp == checked[k].resp
            res == checked[k].result
        IN  /\ (~res.IsUp /\ res.StatusCode = 0) => resp.err
            /\ (~resp.err /\ resp.StatusCode >= 400) =>
                   res.StatusCode = resp.StatusCode
            /\ res.IsUp => res.StatusCode = resp.StatusCode

\* ------------------------- reconciliation of the configuration with table sites
\*
\* SyncSpec is SyncService.SyncConfigToDB of internal/sync/sync.go, called
\* by POST /api/sync/config-to-db, beside the handlers that add and delete
\* sites of the configuration.  A call is one step.

MaxCalls == 2         \* requests handled in a run

Urls == {"u1", "u2"}

\* monitor.Site: the name and the URL of a configured site
ConfigSite == [name : SiteNames, url : Urls]

\* config.json at the start of the process: up to two sites; nothing on the
\* way from the file to cfg.Sites compares the names
StartConfigs ==
    {<<>>} \cup {<<a>> : a \in ConfigSite}
           \cup {<<a, b>> : a \in ConfigSite, b \in ConfigSite}

\* the names that have a row
RowNames(db) == {r.name : r \in db}

\* table sites as earlier runs of the process left it: name is UNIQUE
StartTables ==
    {{}} \cup {{[id |-> 1, name |-> n, url |-> u]} : n \in SiteNames, u \in Urls}
         \cup {db \in {{[id |-> 1, name |-> n, url |-> u],
                         [id |-> 2, name |-> m, url |-> v]} :
                           n \in SiteNames, m \in SiteNames,
                           u \in Urls, v \in Urls} :
                  Cardinality(RowNames(db)) = 2}

\* INTEGER PRIMARY KEY AUTOINCREMENT; no row of the table is ever deleted
NextId(db) == IF db = {} THEN 1
              ELSE (CHOOSE i \in {r.id : r \in db} :
                        \A r \in db : r.id <= i) + 1

\* SiteRepository.Create: INSERT INTO sites (name, url, ...)
SiteCreate(db, name, url) ==
    db \cup {[id |-> NextId(db), name |-> name, url |-> url]}

\* SiteRepository.Update: UPDATE sites SET name = ?, url = ?, ... WHERE id = ?
SiteUpdate(db, row) ==
    {IF r.id = row.id THEN [r EXCEPT !.name = row.name, !.url = row.url]
     ELSE r : r \in db}

\* main: for every site of cfg.Sites, Site.Exists and, if there is no row
\* of that name, Site.Create
RECURSIVE CreateMissing(_, _)
CreateMissing(sites, db) ==
    IF sites = <<>> THEN db
    ELSE LET site == Head(sites)
         IN  CreateMissing(Tail(sites),
                 IF site.name \in RowNames(db) THEN db
                 ELSE SiteCreate(db, site.name, site.url))

\* SyncConfigToDB: configSiteMap[site.Name] = &s.cfg.Sites[i], for i in the
\* order of the list, so the last site of a name is the one in the map
configSiteMap(sites) ==
    [n \in {sites[i].name : i \in DOMAIN sites} |->
        sites[CHOOSE i \in DOMAIN sites :
                 /\ sites[i].name = n
                 /\ \A j \in DOMAIN sites : sites[j].name = n => j <= i]]

\* the orders in which a range over a map of site names can run
MapOrders ==
    {o \in [1..Cardinality(SiteNames) -> SiteNames] :
        \A n \in SiteNames : \E i \in DOMAIN o : o[i] = n}

\* the calls of SyncConfigToDB that can fail
SyncCalls == {"Site.GetAll", "Site.Update", "Site.Create", "AuditLog.Create"}

\* what the settings part of SyncConfigToDB finds
SettingsCases == {"unset", "missing", "differ", "same"}

\* logAudit: one row of audit_logs, unless AuditLog.Create fails
logAudit(audit, F, action, id) ==
    IF "AuditLog.Create" \in F THEN audit
    ELSE Append(audit, [action |-> action, entity_id |-> id])

\* SyncConfigToDB, the loop over configSiteMap: the sites still to process
\* in the order `names`, the map of the rows GetAll returned
RECURSIVE ProcessConfigSites(_, _, _, _, _)
ProcessConfigSites(names, siteMap, dbSiteMap, F, acc) ==
    IF names = <<>> THEN acc
    ELSE LET configName == Head(names)
             rest == Tail(names)
         IN  IF configName \notin DOMAIN siteMap
             THEN ProcessConfigSites(rest, siteMap, dbSiteMap, F, acc)
             ELSE IF \E r \in dbSiteMap : r.name = configName
             THEN LET dbSite == CHOOSE r \in dbSiteMap : r.name = configName
                  IN  IF dbSite.url # siteMap[configName].url
                      THEN IF "Site.Update" \in F
                           THEN ProcessConfigSites(rest, siteMap, dbSiteMap, F,
                                    [acc EXCEPT !.errors = @ \cup {configName}])
                           ELSE ProcessConfigSites(rest, siteMap, dbSiteMap, F,
                                    [acc EXCEPT
                                       !.db = SiteUpdate(@,
                                                 [dbSite EXCEPT !.url =
                                                     siteMap[configName].url]),
                                       !.updated = @ + 1,
                                       !.audit = logAudit(@, F, "site_updated",
                                                          dbSite.id)])
                      ELSE ProcessConfigSites(rest, siteMap, dbSiteMap, F, acc)
             ELSE IF "Site.Create" \in F
                  THEN ProcessConfigSites(rest, siteMap, dbSiteMap, F,
                           [acc EXCEPT !.errors = @ \cup {configName}])
                  ELSE ProcessConfigSites(rest, siteMap, dbSiteMap, F,
                           [acc EXCEPT
                              !.db = SiteCreate(@, configName,
                                                siteMap[configName].url),
                              !.added = @ + 1,
                              !.audit = logAudit(@, F, "site_created",
                                                 NextId(acc.db))])

\* SyncConfigToDB, the loop over what is left of dbSiteMap
RECURSIVE FlagOrphans(_, _, _, _)
FlagOrphans(names, remaining, F, audit) ==
    IF names = <<>> THEN audit
    ELSE IF \E r \in remaining : r.name = Head(names)
         THEN FlagOrphans(Tail(names), remaining, F,
                  logAudit(audit, F, "site_orphaned",
                      (CHOOSE r \in remaining : r.name = Head(names)).id))
         ELSE FlagOrphans(Tail(names), remaining, F, audit)

\* SyncConfigToDB, the settings: nothing is written but the audit row
SyncSettings(audit, F, settings) ==
    IF settings = "missing" THEN logAudit(audit, F, "settings_created", 0)
    ELSE IF settings = "differ" THEN logAudit(audit, F, "settings_updated", 0)
    ELSE audit

\* SyncConfigToDB on the configuration `sites` and the table `db`: the
\* table, the audit log and the SyncResult it leaves
Reconcile(sites, db, audit, F, order, settings) ==
    IF "Site.GetAll" \in F
    THEN [db |-> db, audit |-> audit, added |-> 0, updated |-> 0,
          errors |-> {"Site.GetAll"}, total |-> 0]
    ELSE LET siteMap == configSiteMap(sites)
             done == ProcessConfigSites(order, siteMap, db, F,
                         [db |-> db, audit |-> audit, added |-> 0,
                          updated |-> 0, errors |-> {},
                          total |-> Cardinality(DOMAIN siteMap)])
             remaining == {r \in db : r.name \notin DOMAIN siteMap}
         IN  [done EXCEPT !.audit =
                 SyncSettings(FlagOrphans(order, remaining, F, @), F, settings)]

\* main: LoadConfig, the loop that creates the missing sites, NewSyncService
SyncInit ==
    /\ MonitoringIdle
    /\ MaintenanceIdle
    /\ AnalyticsIdle
    /\ configSites \in StartConfigs
    /\ \E db \in StartTables : dbSites = CreateMissing(configSites, db)
    /\ syncResult = NoSyncResult
    /\ syncAudit = <<>>
    /\ calls = 0
    /\ LifecycleIdle
    /\ DetectorIdle
    /\ OpenIdle
    /\ StoreIdle

\* POST /api/sync/config-to-db
SyncConfigToDB(F, order, settings) ==
    /\ calls < MaxCalls
    /\ LET out == Reconcile(configSites, dbSites, syncAudit, F, order, settings)
       IN  /\ dbSites' = out.db
           /\ syncAudit' = out.audit
           /\ syncResult' = [at |-> calls + 1, added |-> out.added,
                             updated |-> out.updated, errors |-> out.errors,
                             total |-> out.total]
    /\ calls' = calls + 1
    /\ UNCHANGED configSites
    /\ UNCHANGED syncOthers

\* POST /settings/add: Config.AddSite appends the site
SyncAddSite(site) ==
    /\ calls < MaxCalls
    /\ configSites' = Append(configSites, site)
    /\ calls' = calls + 1
    /\ UNCHANGED <<dbSites, syncResult, syncAudit>>
    /\ UNCHANGED syncOthers

\* POST /manage/delete: Config.DeleteSite removes the first site of the name
SyncDeleteSite(name) ==
    /\ calls < MaxCalls
    /\ \E i \in DOMAIN configSites :
          /\ configSites[i].name = name
          /\ \A j \in 1..(i - 1) : configSites[j].name # name
          /\ configSites' = [k \in 1..(Len(configSites) - 1) |->
                                IF k < i THEN configSites[k]
                                ELSE configSites[k + 1]]
    /\ calls' = calls + 1
    /\ UNCHANGED <<dbSites, syncResult, syncAudit>>
    /\ UNCHANGED syncOthers

SyncNext ==
    \/ \E F \in SUBSET SyncCalls, order \in MapOrders,
          settings \in SettingsCases : SyncConfigToDB(F, order, settings)
    \/ \E site \in ConfigSite : SyncAddSite(site)
    \/ \E name \in SiteNames : SyncDeleteSite(name)

SyncSpec == SyncInit /\ [][SyncNext]_vars

\* a call of SyncConfigToDB has returned in this step, with no errors
SyncedCleanly ==
    /\ syncResult'.at # syncResult.at
    /\ syncResult'.errors = {}

\* C31: the reconciliation is an upsert by name that never deletes.  When
\* SyncConfigToDB returns with no errors, every site of the configuration
\* has a row of its name with its URL, every row whose name is not in the
\* configuration is still there as it was, and a further call adds and
\* updates nothing and leaves the table as it is.
C31_UpsertNeverDeletes ==
    [][SyncedCleanly =>
        /\ \A i \in DOMAIN configSites :
              \E r \in dbSites' : /\ r.name = configSites[i].name
                                  /\ r.url = configSites[i].url
        /\ \A r \in dbSites :
              (\A i \in DOMAIN configSites : configSites[i].name # r.name)
              => r \in dbSites'
        /\ \A order \in MapOrders :
              LET again == Reconcile(configSites, dbSites', <<>>, {}, order,
                                     "same")
              IN  /\ again.added = 0
                  /\ again.updated = 0
                  /\ again.db = dbSites']_vars

\* ------------------------------ Start, Stop and the maintenance loop
\*
\* LifecycleSpec is MaintenanceService.Start, Stop and runMaintenanceLoop
\* of internal/database/maintenance.go.  Start and Stop hold m.mutex; the
\* loop reads m.ticker without it.  The tasks and the clock are left to
\* MaintenanceSpec: a call of checkAndRunTasks is one step here.

MaxOps == 5           \* calls of Start and Stop, ticks and task checks

\* a goroutine that has entered runMaintenanceLoop and has not yet
\* evaluated the select statement
NewMaintLoop == [pc |-> "top", on |-> 0]

\* the loops that have not returned
Alive == {l \in DOMAIN maintLoops : maintLoops[l].pc # "exited"}

AlreadyRunningNever(t) == FALSE

\* Start: if m.ticker != nil { return }
AlreadyRunning(t) == t # 0

\* NewMaintenanceService, before main calls Start
LifecycleInit ==
    /\ MonitoringIdle
    /\ MaintenanceIdle
    /\ AnalyticsIdle
    /\ SyncIdle
    /\ calls = 0
    /\ LifecycleIdle
    /\ DetectorIdle
    /\ OpenIdle
    /\ StoreIdle

\* Start, from Lock to Unlock
MaintStart ==
    /\ ~panicked
    /\ ops < MaxOps
    /\ mutex = "free"
    /\ IF AlreadyRunning(ticker)
       THEN /\ history' = Append(history, [call |-> "Start", did |-> "nothing"])
            /\ UNCHANGED <<ticker, maintLoops>>
       ELSE /\ ticker' = Len(maintLoops) + 1
            /\ maintLoops' = Append(maintLoops, NewMaintLoop)
            /\ history' = Append(history, [call |-> "Start", did |-> "started"])
    /\ ops' = ops + 1
    /\ UNCHANGED <<mutex, tickReady, panicked>>
    /\ UNCHANGED lifeOthers

\* Stop, from Lock up to the send on m.done, or to Unlock when there is
\* no ticker: m.ticker.Stop(), m.ticker = nil, m.done <- true
MaintStop ==
    /\ ~panicked
    /\ ops < MaxOps
    /\ mutex = "free"
    /\ IF ticker # 0
       THEN /\ ticker' = 0
            /\ mutex' = "Stop"
            /\ UNCHANGED history
       ELSE /\ history' = Append(history, [call |-> "Stop", did |-> "nothing"])
            /\ UNCHANGED <<ticker, mutex>>
    /\ ops' = ops + 1
    /\ UNCHANGED <<maintLoops, tickReady, panicked>>
    /\ UNCHANGED lifeOthers

\* the ticker in m.ticker fires; a stopped ticker does not
MaintTick ==
    /\ ~panicked
    /\ ops < MaxOps
    /\ ticker # 0
    /\ ticker \notin tickReady
    /\ tickReady' = tickReady \cup {ticker}
    /\ ops' = ops + 1
    /\ UNCHANGED <<ticker, mutex, maintLoops, history, panicked>>
    /\ UNCHANGED lifeOthers

\* the values a read of m.ticker by loop l can give.  The read is not
\* synchronised with the write m.ticker = nil of a call of Stop that has
\* not returned, so it gives nil or the ticker that was there before;
\* the ticker Start made is visible to the loop Start started
SeenTickers(l) == IF ticker # 0 THEN {ticker}
                  ELSE IF mutex = "Stop" THEN {0, l}
                  ELSE {0}

\* runMaintenanceLoop arrives at the select statement and evaluates
\* m.ticker.C; with m.ticker nil that is a nil pointer dereference
LoopSelect(l, seen) ==
    /\ ~panicked
    /\ maintLoops[l].pc = "top"
    /\ seen \in SeenTickers(l)
    /\ IF seen = 0
       THEN /\ panicked' = TRUE
            /\ UNCHANGED maintLoops
       ELSE /\ maintLoops' = [maintLoops EXCEPT ![l] = [pc |-> "select",
                                                         on |-> seen]]
            /\ UNCHANGED panicked
    /\ UNCHANGED <<ticker, mutex, tickReady, history, ops>>
    /\ UNCHANGED lifeOthers

\* case <-m.ticker.C
LoopTick(l) ==
    /\ ~panicked
    /\ maintLoops[l].pc = "select"
    /\ maintLoops[l].on \in tickReady
    /\ tickReady' = tickReady \ {maintLoops[l].on}
    /\ maintLoops' = [maintLoops EXCEPT ![l].pc = "check"]
    /\ UNCHANGED <<ticker, mutex, history, panicked, ops>>
    /\ UNCHANGED lifeOthers

\* m.checkAndRunTasks() returns, having started its tasks or none
LoopCheck(l) ==
    /\ ~panicked
    /\ ops < MaxOps
    /\ maintLoops[l].pc = "check"
    /\ maintLoops' = [maintLoops EXCEPT ![l] = NewMaintLoop]
    /\ history' = Append(history, [call |-> "checkAndRunTasks",
                                   did |-> IF ticker = 0 THEN "stopping"
                                           ELSE "running"])
    /\ ops' = ops + 1
    /\ UNCHANGED <<ticker, mutex, tickReady, panicked>>
    /\ UNCHANGED lifeOthers

\* case <-m.done: the loop takes what Stop sends and returns; Stop goes on
\* to its Unlock
LoopDone(l) ==
    /\ ~panicked
    /\ maintLoops[l].pc = "select"
    /\ mutex = "Stop"
    /\ maintLoops' = [maintLoops EXCEPT ![l].pc = "exited"]
    /\ mutex' = "free"
    /\ history' = Append(history, [call |-> "Stop", did |-> "stopped"])
    /\ UNCHANGED <<ticker, tickReady, panicked, ops>>
    /\ UNCHANGED lifeOthers

LifecycleNext ==
    \/ MaintStart
    \/ MaintStop
    \/ MaintTick
    \/ \E l \in DOMAIN maintLoops, seen \in 0..Len(maintLoops) :
          LoopSelect(l, seen)
    \/ \E l \in DOMAIN maintLoops : LoopTick(l)
    \/ \E l \in DOMAIN maintLoops : LoopCheck(l)
    \/ \E l \in DOMAIN maintLoops : LoopDone(l)

LifecycleSpec == LifecycleInit /\ [][LifecycleNext]_vars

\* C33: Stop on a running service ends the loop cleanly wherever the loop
\* is.  The loop never dereferences the cleared ticker, and once Stop has
\* returned the loop has exited, so that no task is started after that;
\* a call of Stop that waits at m.done has a loop that can take the value.
C33_StopIsClean ==
    /\ ~panicked
    /\ (ticker = 0 /\ mutex = "free") => Alive = {}
    /\ mutex = "Stop" => Alive # {}

\* C34: at most one maintenance loop goroutine exists at any time, for
\* every sequence of Start and Stop calls.  Start on a running service does
\* nothing, Stop on a stopped service does nothing, and Start makes a new
\* loop only when every loop before it has exited.
C34_AtMostOneLoop ==
    [][/\ Cardinality(Alive') <= 1
       /\ Len(maintLoops') > Len(maintLoops) => Alive = {}
       /\ (Len(history') > Len(history)
           /\ history'[Len(history')].call = "Start" /\ ticker # 0)
          => /\ history'[Len(history')].did = "nothing"
             /\ UNCHANGED <<ticker, mutex, maintLoops, tickReady>>
       /\ (Len(history') > Len(history)
           /\ history'[Len(history')].call = "Stop" /\ ticker = 0
           /\ mutex = "free")
          => /\ history'[Len(history')].did = "nothing"
             /\ UNCHANGED <<ticker, mutex, maintLoops, tickReady>>]_vars

\* the service has been started, stopped and started again, Start has been
\* called on the running service and Stop on the stopped one, and the one
\* loop alive is the second
C34_Witness ==
    /\ Alive = {2}
    /\ \E i, j \in DOMAIN history :
          /\ history[i] = [call |-> "Start", did |-> "nothing"]
          /\ history[j] = [call |-> "Stop", did |-> "nothing"]

\* ------------------------------ the transition detector under overlap
\*
\* DetectorSpec is SiteStatusTracker.CheckAndNotify called by the
\* collectors of two monitoring loops, as they run side by side after
\* restartMonitoring.  A call is two steps: the critical section, and the
\* call of sendNotifications that follows the unlock.

MaxResults == 4       \* calls of CheckAndNotify in a run

\* the collectors: the loop main started and the one restartMonitoring
\* started
Collectors == 1..2

\* a collector between two calls of CheckAndNotify
NoSend == [site |-> "", status |-> "none"]

\* main: the tracker is made empty, the loops are started
DetectorInit ==
    /\ MonitoringIdle
    /\ MaintenanceIdle
    /\ AnalyticsIdle
    /\ SyncIdle
    /\ calls = 0
    /\ LifecycleIdle
    /\ OpenIdle
    /\ StoreIdle
    /\ trackerState = EmptyMap
    /\ callers = [c \in Collectors |-> NoSend]
    /\ emitted = <<>>
    /\ fed = 0

\* CheckAndNotify from st.mu.Lock() to st.mu.Unlock(), and the return when
\* there is nothing to send
DetectorEnter(c, name, isUp) ==
    /\ fed < MaxResults
    /\ callers[c] = NoSend
    /\ LET det == CheckAndNotify(trackerState, name, isUp)
       IN  /\ trackerState' = det.previousState
           /\ callers' = [callers EXCEPT ![c] =
                             IF det.notify = "none" THEN NoSend
                             ELSE [site |-> name, status |-> det.notify]]
    /\ fed' = fed + 1
    /\ UNCHANGED emitted
    /\ UNCHANGED detOthers

\* CheckAndNotify after the unlock: st.sendNotifications(result, status, ...)
DetectorSend(c) ==
    /\ callers[c] # NoSend
    /\ emitted' = Append(emitted, callers[c])
    /\ callers' = [callers EXCEPT ![c] = NoSend]
    /\ UNCHANGED <<trackerState, fed>>
    /\ UNCHANGED detOthers

DetectorNext ==
    \/ \E c \in Collectors, name \in SiteNames, isUp \in BOOLEAN :
          DetectorEnter(c, name, isUp)
    \/ \E c \in Collectors : DetectorSend(c)

DetectorSpec == DetectorInit /\ [][DetectorNext]_vars

\* the events emitted for site s, in their order
EmittedFor(s) == SelectSeq(emitted, LAMBDA e : e.site = s)

\* C36: for each target the emitted events strictly alternate: of two
\* events of a site that follow each other one is went-down and the other
\* recovered, for every sequence of results.
C36_EventsAlternate ==
    \A s \in SiteNames :
        \A n \in 1..(Len(EmittedFor(s)) - 1) :
            EmittedFor(s)[n].status # EmittedFor(s)[n + 1].status

\* --------------------------------------- retention and the open incident
\*
\* RetentionSpec is CleanupOldData beside the incident ledger of runChecks,
\* over days: a site is down with its incident open, the cleanup runs, the
\* clock moves on and further results of the site arrive.  It shares the
\* tables, the retention and the clock with AnalyticsSpec.  A run of the
\* cleanup and the handling of a result are one step each.

MaxEvents == 4        \* runs of the cleanup, results and days in a run

\* what runChecks stores of a result
StoredOutcome(isUp) ==
    IF isUp THEN [is_up |-> TRUE, status_code |-> 200, latency_ms |-> 40]
    ELSE [is_up |-> FALSE, status_code |-> 0, latency_ms |-> 90]

\* int64(now.Sub(ongoing.StartTime).Seconds())
SlotsToSeconds(d) == (d * 60) \div SlotsPerMinute

\* the open incidents of a site, and those GetOngoing can return: ORDER BY
\* start_time DESC LIMIT 1
OngoingRows(rows, siteID) ==
    {r \in rows : r.site_id = siteID /\ r.end_time = NULL}

LatestOngoing(rows, siteID) ==
    {r \in OngoingRows(rows, siteID) :
        \A o \in OngoingRows(rows, siteID) : o.start_time <= r.start_time}

\* the database of a process in zone UTC: site 1 went down at `since` and
\* is still down, its incident open; site 2 had an incident two days ago
RetentionInit ==
    /\ MonitoringIdle
    /\ ExtraIdle
    /\ zone = 0
    /\ started = Noon(Today)
    /\ wall = started
    /\ nextTick = 0
    /\ launched = {}
    /\ running = [t \in Tasks |-> [by \in Origins |-> 0]]
    /\ msteps = 0
    /\ \E since \in {Noon(Today - 2), Noon(Today - 1), Early(Today)} :
          tables =
             [c \in Range(CleanupOrder) |->
                CASE c = "uptime_records" ->
                        {UptimeRecord(1, since, StoredOutcome(FALSE))}
                  [] c = "downtime_incidents" ->
                        {[site_id |-> 1, start_time |-> since,
                          end_time |-> NULL, duration_seconds |-> 0],
                         [site_id |-> 2, start_time |-> Noon(Today - 2),
                          end_time |-> Noon(Today - 2) + 3 * Minute,
                          duration_seconds |-> 150]}
                  [] c = "uptime_summary" -> {}
                  [] c = "notification_logs" -> {}
                  [] c = "audit_logs" -> {}]
    /\ jobs = <<>>
    /\ retentionDays \in RetentionChoices
    /\ asteps = 0

\* runDataCleanup: CleanupOldData(m.cleanupRetentionDays) from start to
\* return; failAt is the place in its order of the DeleteOlderThan that
\* fails, 0 when none does
RetentionCleanup(failAt) ==
    /\ asteps < MaxEvents
    /\ tables' = [c \in Range(CleanupOrder) |->
          IF \E k \in DOMAIN CleanupOrder :
                /\ CleanupOrder[k] = c
                /\ failAt = 0 \/ k < failAt
          THEN DeleteOlderThan(c, tables[c], wall, retentionDays)
          ELSE tables[c]]
    /\ asteps' = asteps + 1
    /\ UNCHANGED <<jobs, retentionDays>>
    /\ UNCHANGED <<monitorVars, probeVars, extraVars, schedVars>>

\* runChecks for a result of a site at the instant `wall`, with no call
\* failing: the uptime record, and the incident opened or closed
RetentionResult(siteID, isUp) ==
    /\ asteps < MaxEvents
    /\ LET inc == tables["downtime_incidents"]
           ongoing == LatestOngoing(inc, siteID)
       IN  tables' =
              [tables EXCEPT
                 !["uptime_records"] =
                     @ \cup {UptimeRecord(siteID, wall, StoredOutcome(isUp))},
                 !["downtime_incidents"] =
                     IF ~isUp
                     THEN IF ongoing = {}
                          THEN @ \cup {[site_id |-> siteID,
                                        start_time |-> wall,
                                        end_time |-> NULL,
                                        duration_seconds |-> 0]}
                          ELSE @
                     ELSE IF ongoing = {} THEN @
                          ELSE LET o == CHOOSE r \in ongoing : TRUE
                               IN  (@ \ {o}) \cup
                                   {[o EXCEPT
                                       !.end_time = wall,
                                       !.duration_seconds =
                                          SlotsToSeconds(wall - o.start_time)]}]
    /\ asteps' = asteps + 1
    /\ UNCHANGED <<jobs, retentionDays>>
    /\ UNCHANGED <<monitorVars, probeVars, extraVars, schedVars>>

\* a day goes by
RetentionDay ==
    /\ asteps < MaxEvents
    /\ wall' = wall + Day
    /\ asteps' = asteps + 1
    /\ UNCHANGED <<zone, started, nextTick, launched, running, msteps>>
    /\ UNCHANGED <<tables, jobs, retentionDays>>
    /\ UNCHANGED <<monitorVars, probeVars, extraVars>>

RetentionNext ==
    \/ \E failAt \in 0..Len(CleanupOrder) : RetentionCleanup(failAt)
    \/ \E siteID \in Range(SiteRows), isUp \in BOOLEAN :
          RetentionResult(siteID, isUp)
    \/ RetentionDay

RetentionSpec == RetentionInit /\ [][RetentionNext]_vars

\* C38: the retention cleanup never deletes an incident that is still
\* open.  An incident with end_time NULL stays in the table, open or
\* closed by an up result, whatever the cleanup does, so an outage longer
\* than the retention keeps its one row and a later down result finds it.
C38_CleanupKeepsOpenIncident ==
    [][\A r \in tables["downtime_incidents"] :
          r.end_time = NULL
          => \E q \in tables'["downtime_incidents"] :
                /\ q.site_id = r.site_id
                /\ q.start_time = r.start_time]_vars

\* ------------------------------------------------------- database.Open
\*
\* OpenSpec is Open of internal/database/db.go: the calls a process makes
\* of it, each one step, with the step of the function of once.Do that
\* fails, if any.

MaxOpens == 4         \* calls of Open in a run

\* the paths Open is called with
DbPaths == {"watchdog.db", "other.db", "missing/watchdog.db"}

\* what can go wrong inside the function of once.Do
OpenFailures == {"none", "sql.Open", "PRAGMA foreign_keys", "Ping",
                 "runMigrations"}

\* the function handed to once.Do: the value it leaves in instance.  It
\* returns before the assignment when sql.Open, the PRAGMA or Ping fails
OnceBody(dbPath, failure) ==
    IF failure \in {"sql.Open", "PRAGMA foreign_keys", "Ping"} THEN ""
    ELSE dbPath

\* the err that Open returns: `var err error` of Open.  The function of
\* once.Do declares its own err with := in every statement that can fail,
\* so the variable of Open is never assigned
OuterErr(failure) == FALSE

\* main has not called Open yet
OpenInit ==
    /\ MonitoringIdle
    /\ MaintenanceIdle
    /\ AnalyticsIdle
    /\ SyncIdle
    /\ calls = 0
    /\ LifecycleIdle
    /\ DetectorIdle
    /\ OpenIdle
    /\ StoreIdle

\* log.Fatalf in the function of once.Do has ended the process
Exited == \E i \in DOMAIN opens : opens[i].fatal

\* Open(dbPath): once.Do runs its function in the first call only; a
\* failed runMigrations ends the process
Open(dbPath, failure) ==
    /\ Len(opens) < MaxOpens
    /\ ~Exited
    /\ once => failure = "none"
    /\ LET runs == ~once
           inst == IF runs THEN OnceBody(dbPath, failure) ELSE instance
           fatal == runs /\ failure = "runMigrations"
       IN  /\ instance' = inst
           /\ opens' = Append(opens,
                  [path |-> dbPath,
                   failure |-> failure,
                   fatal |-> fatal,
                   db |-> IF fatal THEN "" ELSE inst,
                   err |-> ~fatal /\ runs /\ OuterErr(failure)])
    /\ once' = TRUE
    /\ UNCHANGED openOthers

OpenNext == \E dbPath \in DbPaths, failure \in OpenFailures :
                Open(dbPath, failure)

OpenSpec == OpenInit /\ [][OpenNext]_vars

\* C39: Open returns a non-nil error whenever opening, configuring or
\* pinging the connection fails, and never returns a nil database with a
\* nil error, in the first call and in the calls after a failed one.
C39_OpenReportsFailure ==
    \A i \in DOMAIN opens :
        ~opens[i].fatal
        => /\ opens[i].failure \in {"sql.Open", "PRAGMA foreign_keys", "Ping"}
              => opens[i].err
           /\ ~(opens[i].db = "" /\ ~opens[i].err)

\* ---------------------------------------------------- NotificationStore
\*
\* StoreSpec is the dashboard notification store of the notifier package:
\* Add, MarkAllAsRead and Clear, each under ns.mu from entry to return and
\* so one step.  MarkAsRead(id) sets the Read field of one element as
\* MarkAllAsRead sets it for all of them and is not a step of its own.

MaxAdds == 102        \* notifications added to a store since it was empty

\* maxSize of the package variable Notifications
maxSize == 100

\* the notification sendDashboardNotification builds for the k-th call of
\* Add: Read is false
DashboardNotification(k) == [seq |-> k, Read |-> FALSE]

\* `Trim if exceeds max size` with the slice cut at the other end
TrimOldestKept(list) ==
    IF Len(list) > maxSize
    THEN SubSeq(list, Len(list) - maxSize + 1, Len(list))
    ELSE list
\* `Trim if exceeds max size`: ns.Notifications[:ns.maxSize]
Trim(list) ==
    IF Len(list) > maxSize THEN SubSeq(list, 1, maxSize) ELSE list

StoreInit ==
    /\ MonitoringIdle
    /\ MaintenanceIdle
    /\ AnalyticsIdle
    /\ SyncIdle
    /\ calls = 0
    /\ LifecycleIdle
    /\ DetectorIdle
    /\ OpenIdle
    /\ StoreIdle

\* NotificationStore.Add: the notification goes to the front, then the trim
StoreAdd ==
    /\ Len(addLog) < MaxAdds
    /\ LET notification == DashboardNotification(Len(addLog) + 1)
       IN  /\ Notifications' = Trim(<<notification>> \o Notifications)
           /\ addLog' = Append(addLog, notification)
    /\ UNCHANGED storeOthers

\* NotificationStore.MarkAllAsRead
StoreMarkAllAsRead ==
    /\ Notifications' = [i \in DOMAIN Notifications |->
                             [Notifications[i] EXCEPT !.Read = TRUE]]
    /\ UNCHANGED addLog
    /\ UNCHANGED storeOthers

\* NotificationStore.Clear
StoreClear ==
    /\ Notifications' = <<>>
    /\ addLog' = <<>>
    /\ UNCHANGED storeOthers

StoreNext ==
    \/ StoreAdd
    \/ StoreMarkAllAsRead
    \/ StoreClear

StoreSpec == StoreInit /\ [][StoreNext]_vars

\* the number of notifications the store holds after the adds of addLog
Kept == IF Len(addLog) > maxSize THEN maxSize ELSE Len(addLog)

\* C40: the store never holds more than 100 notifications; after any
\* sequence of Add calls it holds the most recently added ones, the newest
\* first, and the ones dropped are the oldest.
C40_StoreKeepsNewest ==
    /\ Len(Notifications) <= maxSize
    /\ Len(Notifications) = Kept
    /\ \A i \in 1..Len(Notifications) :
           Notifications[i].seq = addLog[Len(addLog) + 1 - i].seq

\* more than maxSize notifications have been added and the oldest are gone
C40_Witness ==
    /\ Len(addLog) = maxSize + 2
    /\ Len(Notifications) = maxSize
    /\ Notifications[1].seq = maxSize + 2
    /\ Notifications[maxSize].seq = 3

====
